---------------------------- MODULE Spec2Model ----------------------------
(***************************************************************************)
(* A model of mcp-server-docx: the markdown block parser                   *)
(* (src/src/markdown-parser.ts), the inline formatter, the style merge and *)
(* the document sessions of DocumentManager (src/src/document-manager.ts). *)
(*                                                                         *)
(* A JavaScript string is a sequence of one-character strings.  A          *)
(* JavaScript object is a record or a function whose DOMAIN is the set of  *)
(* the keys that are present; an absent key is a key outside the DOMAIN.   *)
(***************************************************************************)
EXTENDS Integers, Sequences, FiniteSets, TLC

VARIABLES
    pc,             \* position of a harness ("input", "merged", "done",
                    \* "content"), "run" for the DocumentManager
    src,            \* parser harness: the input as a sequence of line descriptors
    md,             \* parser harness: the markdown string handed to parseMarkdown
    items,          \* parser harness: the ContentItem[] parseMarkdown returned
    fmtIn,          \* formatter harness: the text handed to parseMarkdownFormatting
    segs,           \* formatter harness: the TextSegment[] it returned
    content,        \* the ContentItem[] handed to applyStylesToContent, or to
                    \* the one call of createDocumentFromContent
    styles,         \* style harness: the caller's Partial<MarkdownStyles>
    mergedStyles,   \* style harness: the merged style sheet
    styled,         \* style harness: the ContentItem[] applyStylesToContent returned
    defaultStyles,  \* the module-level object DEFAULT_MARKDOWN_STYLES
    sessions,       \* DocumentManager.sessions: filename -> DocumentSession
    disk,           \* the file system: filename -> the document written there
    tasks,          \* the asynchronous calls in flight, suspended at an await
    event,          \* the step taken last: the call, its file and its outcome
    nCalls          \* number of calls made so far

vars == <<pc, src, md, items, fmtIn, segs, content, styles, mergedStyles,
          styled, defaultStyles, sessions, disk, tasks, event, nCalls>>

-----------------------------------------------------------------------------
(* Strings *)

\* The whitespace of \s and of String.prototype.trim that the inputs use.
WS == {" ", "\t", "\n"}

NL == "\n"

Digits == {"0", "1", "2", "3", "4", "5", "6", "7", "8", "9"}

Max(a, b) == IF a >= b THEN a ELSE b

RECURSIVE TrimStart(_)
TrimStart(s) ==
    IF Len(s) > 0 /\ Head(s) \in WS THEN TrimStart(Tail(s)) ELSE s

RECURSIVE TrimEnd(_)
TrimEnd(s) ==
    IF Len(s) > 0 /\ s[Len(s)] \in WS
    THEN TrimEnd(SubSeq(s, 1, Len(s) - 1))
    ELSE s

\* String.prototype.trim
Trim(s) == TrimEnd(TrimStart(s))

\* s.substring(p - 1): the rest of s from the 1-based position p on.
From(s, p) == SubSeq(s, p, Len(s))

\* The 1-based position of the first occurrence of character c in s at or
\* after p, or 0 when there is none (indexOf).
RECURSIVE IndexOf(_, _, _)
IndexOf(s, c, p) ==
    IF p > Len(s) THEN 0
    ELSE IF s[p] = c THEN p
    ELSE IndexOf(s, c, p + 1)

\* s.split('\n')
RECURSIVE SplitLines(_)
SplitLines(s) ==
    LET p == IndexOf(s, NL, 1)
    IN IF p = 0 THEN <<s>>
       ELSE <<SubSeq(s, 1, p - 1)>> \o SplitLines(From(s, p + 1))

\* lines.join('\n')
RECURSIVE JoinLines(_)
JoinLines(ls) ==
    IF Len(ls) = 0 THEN <<>>
    ELSE IF Len(ls) = 1 THEN ls[1]
    ELSE ls[1] \o <<NL>> \o JoinLines(Tail(ls))

\* The number of consecutive characters of the set C in s from position p on.
RECURSIVE Run(_, _, _)
Run(s, p, C) ==
    IF p <= Len(s) /\ s[p] \in C THEN 1 + Run(s, p + 1, C) ELSE 0

\* The positions of s where a line starts: what ^ matches under the m flag.
LineStarts(s) ==
    {p \in 1..Len(s) : p = 1 \/ s[p - 1] = NL}

\* The last position of the line of s that holds position p: what $ matches
\* under the m flag, and where . stops.
EndOfLine(s, p) ==
    LET q == IndexOf(s, NL, p) IN IF q = 0 THEN Len(s) ELSE q - 1

SetMin(S) == CHOOSE x \in S : \A y \in S : x <= y

Repeat(x, n) == [i \in 1..n |-> x]


-----------------------------------------------------------------------------
(* markdown-parser.ts *)

\* /^#{1,6}\s+/ at position p of s: one to six '#', then whitespace.
HeadingAt(s, p) ==
    LET k == Run(s, p, {"#"})
    IN k >= 1 /\ k <= 6 /\ p + k <= Len(s) /\ s[p + k] \in WS

\* /^[-*]\s+/ at position p of s.
BulletAt(s, p) ==
    p + 1 <= Len(s) /\ s[p] \in {"-", "*"} /\ s[p + 1] \in WS

\* /^\d+\.\s+/ at position p of s.
OrderedAt(s, p) ==
    LET k == Run(s, p, Digits)
    IN k >= 1 /\ p + k + 1 <= Len(s) /\ s[p + k] = "." /\ s[p + k + 1] \in WS

\* line.replace(/^[-*]\s+/, '').trim() for a line that matches.
BulletText(line) == Trim(From(line, 2 + Run(line, 2, WS)))

\* line.replace(/^\d+\.\s+/, '').trim() for a line that matches.
OrderedText(line) ==
    LET k == Run(line, 1, Digits)
    IN Trim(From(line, k + 2 + Run(line, k + 2, WS)))

\* The state of the loop of splitIntoBlocks before the first line.
SplitInit ==
    [blocks |-> <<>>, currentBlock |-> <<>>, inList |-> FALSE,
     emptyLineCount |-> 0]

\* currentBlock += (currentBlock ? '\n' : '') + line
AppendLine(currentBlock, line) ==
    IF Len(currentBlock) > 0 THEN currentBlock \o <<NL>> \o line ELSE line

\* The branch of the loop body for an empty line.
OnEmptyLine(st) ==
    IF st.inList
    THEN [st EXCEPT !.blocks = Append(@, st.currentBlock),
                    !.currentBlock = <<>>,
                    !.inList = FALSE,
                    !.emptyLineCount = @ + 1]
    ELSE IF Len(Trim(st.currentBlock)) > 0
    THEN [st EXCEPT !.blocks = Append(@, st.currentBlock),
                    !.currentBlock = <<>>,
                    !.emptyLineCount = @ + 1]
    ELSE [st EXCEPT !.emptyLineCount = @ + 1]

\* A faulty variant of SpacerBlocks: the loop starts at j = 0.
SpacerBlocksPerLine(n) == n

\* The number of empty blocks pushed for a run of n empty lines:
\* for (let j = 1; j < emptyLineCount; j++) blocks.push('').
SpacerBlocks(n) == Max(0, n - 1)

\* The accumulated empty lines become spacing when content follows.
FlushEmptyLines(st) ==
    IF st.emptyLineCount > 0
    THEN [st EXCEPT !.blocks = @ \o Repeat(<<>>, SpacerBlocks(st.emptyLineCount)),
                    !.emptyLineCount = 0]
    ELSE st

\* The branch for a heading line.
OnHeading(st, line) ==
    [st EXCEPT !.blocks = (IF Len(Trim(st.currentBlock)) > 0
                           THEN Append(@, st.currentBlock) ELSE @)
                          \o <<line>>,
               !.currentBlock = <<>>,
               !.inList = FALSE]

\* The branch for a list item.
OnListItem(st, line) ==
    LET ended == Len(st.currentBlock) > 0 /\ ~st.inList
        cur == IF ended THEN <<>> ELSE st.currentBlock
    IN [st EXCEPT !.blocks = IF ended THEN Append(@, st.currentBlock) ELSE @,
                  !.inList = TRUE,
                  !.currentBlock = AppendLine(cur, line)]

\* The branch for any other line.
OnRegularLine(st, line) ==
    IF st.inList
    THEN [st EXCEPT !.blocks = Append(@, st.currentBlock),
                    !.currentBlock = line,
                    !.inList = FALSE]
    ELSE [st EXCEPT !.currentBlock = AppendLine(st.currentBlock, line)]

\* One iteration of the loop of splitIntoBlocks.
SplitLine(st, line) ==
    LET trimmed == Trim(line)
        isListItem == BulletAt(trimmed, 1) \/ OrderedAt(trimmed, 1)
        isHeading == HeadingAt(trimmed, 1)
    IN IF Len(trimmed) = 0 THEN OnEmptyLine(st)
       ELSE LET st1 == FlushEmptyLines(st)
            IN IF isHeading THEN OnHeading(st1, line)
               ELSE IF isListItem THEN OnListItem(st1, line)
               ELSE OnRegularLine(st1, line)

RECURSIVE SplitLoop(_, _)
SplitLoop(st, lines) ==
    IF Len(lines) = 0 THEN st
    ELSE SplitLoop(SplitLine(st, Head(lines)), Tail(lines))

splitIntoBlocks(markdown) ==
    LET st == SplitLoop(SplitInit, SplitLines(markdown))
    IN IF Len(Trim(st.currentBlock)) > 0
       THEN Append(st.blocks, st.currentBlock)
       ELSE st.blocks

\* A faulty variant of HeadingBorder: every heading gets the border.
HeadingBorderAlways(level) == TRUE

\* format.borderBottom of a heading of the given level.
HeadingBorder(level) == level <= 2

\* trimmed.match(/^(#{1,6})\s+(.+)$/m): the positions where it matches.
HeadingMatches(s) == {p \in LineStarts(s) : HeadingAt(s, p)}

\* The heading item of a block the heading pattern matches.  \s+ takes the
\* whole whitespace run, line breaks included, and (.+)$ the rest of the
\* line that follows it.
HeadingItem(s) ==
    LET p == SetMin(HeadingMatches(s))
        level == Run(s, p, {"#"})
        q == p + level + Run(s, p + level, WS)
    IN [type |-> "heading",
        text |-> SubSeq(s, q, EndOfLine(s, q)),
        format |-> [level |-> level, borderBottom |-> HeadingBorder(level)]]

RECURSIVE FilterBullets(_)
FilterBullets(lines) ==
    IF Len(lines) = 0 THEN <<>>
    ELSE (IF BulletAt(Head(lines), 1) THEN <<BulletText(Head(lines))>> ELSE <<>>)
         \o FilterBullets(Tail(lines))

RECURSIVE FilterOrdered(_)
FilterOrdered(lines) ==
    IF Len(lines) = 0 THEN <<>>
    ELSE (IF OrderedAt(Head(lines), 1) THEN <<OrderedText(Head(lines))>> ELSE <<>>)
         \o FilterOrdered(Tail(lines))

\* A faulty variant of BulletItems: only the first line of the block is kept.
BulletItemsFirstOnly(trimmed) == <<BulletText(SplitLines(trimmed)[1])>>

\* The list items of a block the unordered pattern matches.
BulletItems(trimmed) == FilterBullets(SplitLines(trimmed))

\* The body of the loop of parseMarkdown: the items one block adds.
ParseBlock(block) ==
    LET trimmed == Trim(block)
    IN IF Len(trimmed) = 0
       THEN <<[type |-> "paragraph", text |-> <<>>]>>
       ELSE IF HeadingMatches(trimmed) # {}
       THEN <<HeadingItem(trimmed)>>
       ELSE IF \E p \in LineStarts(trimmed) : BulletAt(trimmed, p)
       THEN LET listItems == BulletItems(trimmed)
            IN IF Len(listItems) > 0
               THEN <<[type |-> "bullets", items |-> listItems]>>
               ELSE <<>>
       ELSE IF \E p \in LineStarts(trimmed) : OrderedAt(trimmed, p)
       THEN LET listItems == FilterOrdered(SplitLines(trimmed))
            IN IF Len(listItems) > 0
               THEN <<[type |-> "ordered", items |-> listItems]>>
               ELSE <<>>
       ELSE <<[type |-> "paragraph", text |-> trimmed]>>

RECURSIVE ParseBlocks(_)
ParseBlocks(blocks) ==
    IF Len(blocks) = 0 THEN <<>>
    ELSE ParseBlock(Head(blocks)) \o ParseBlocks(Tail(blocks))

parseMarkdown(markdown) == ParseBlocks(splitIntoBlocks(markdown))

-----------------------------------------------------------------------------
(* document-manager.ts: parseMarkdownFormatting *)

\* The position of the ']' that closes a link label opened at p, when the
\* first alternative, \[([^\]]+?)\]\(([^)]+?)\), matches at p; 0 otherwise.
LinkLabelEnd(s, p) ==
    IF p <= Len(s) /\ s[p] = "["
    THEN LET q == IndexOf(s, "]", p + 1)
         IN IF q >= p + 2 /\ q + 1 <= Len(s) /\ s[q + 1] = "("
               /\ IndexOf(s, ")", q + 2) >= q + 3
            THEN q ELSE 0
    ELSE 0

\* The position of the first '*' of the closing marker when the second
\* alternative, \*\*([^*]+?)\*\*, matches at p; 0 otherwise.
BoldEnd(s, p) ==
    IF p + 1 <= Len(s) /\ s[p] = "*" /\ s[p + 1] = "*"
    THEN LET q == IndexOf(s, "*", p + 2)
         IN IF q >= p + 3 /\ q + 1 <= Len(s) /\ s[q + 1] = "*" THEN q ELSE 0
    ELSE 0

\* The position of the closing '*' when the third alternative,
\* \*([^*]+?)\*, matches at p; 0 otherwise.
ItalicEnd(s, p) ==
    IF p <= Len(s) /\ s[p] = "*"
    THEN LET q == IndexOf(s, "*", p + 1)
         IN IF q >= p + 2 THEN q ELSE 0
    ELSE 0

MatchesAt(s, p) ==
    LinkLabelEnd(s, p) > 0 \/ BoldEnd(s, p) > 0 \/ ItalicEnd(s, p) > 0

\* regex.exec(text) with lastIndex = from - 1: the position of the leftmost
\* match at or after from, or 0.
RECURSIVE NextMatch(_, _)
NextMatch(s, from) ==
    IF from > Len(s) THEN 0
    ELSE IF MatchesAt(s, from) THEN from
    ELSE NextMatch(s, from + 1)

\* A faulty variant of MatchSegment: an italic span keeps its closing marker.
MatchSegmentKeepsMarker(s, p) ==
    IF LinkLabelEnd(s, p) > 0
    THEN LET q == LinkLabelEnd(s, p)
         IN [text |-> SubSeq(s, p + 1, q - 1),
             link |-> SubSeq(s, q + 2, IndexOf(s, ")", q + 2) - 1)]
    ELSE IF BoldEnd(s, p) > 0
    THEN [text |-> SubSeq(s, p + 2, BoldEnd(s, p) - 1), bold |-> TRUE]
    ELSE [text |-> SubSeq(s, p + 1, ItalicEnd(s, p)), italic |-> TRUE]

\* The segment pushed for the match at p: the alternatives in their order.
MatchSegment(s, p) ==
    IF LinkLabelEnd(s, p) > 0
    THEN LET q == LinkLabelEnd(s, p)
         IN [text |-> SubSeq(s, p + 1, q - 1),
             link |-> SubSeq(s, q + 2, IndexOf(s, ")", q + 2) - 1)]
    ELSE IF BoldEnd(s, p) > 0
    THEN [text |-> SubSeq(s, p + 2, BoldEnd(s, p) - 1), bold |-> TRUE]
    ELSE [text |-> SubSeq(s, p + 1, ItalicEnd(s, p) - 1), italic |-> TRUE]

\* match.index + match[0].length, as a 1-based position: the last
\* character of the match at p.
MatchLast(s, p) ==
    IF LinkLabelEnd(s, p) > 0 THEN IndexOf(s, ")", LinkLabelEnd(s, p) + 2)
    ELSE IF BoldEnd(s, p) > 0 THEN BoldEnd(s, p) + 1
    ELSE ItalicEnd(s, p)

\* The while loop and the remaining plain text, from currentPos on.
RECURSIVE FormatFrom(_, _)
FormatFrom(s, currentPos) ==
    LET p == NextMatch(s, currentPos)
    IN IF p = 0
       THEN IF currentPos <= Len(s) THEN <<[text |-> From(s, currentPos)]>>
            ELSE <<>>
       ELSE (IF p > currentPos
             THEN <<[text |-> SubSeq(s, currentPos, p - 1)]>> ELSE <<>>)
            \o <<MatchSegment(s, p)>>
            \o FormatFrom(s, MatchLast(s, p) + 1)

parseMarkdownFormatting(text) ==
    LET segments == FormatFrom(text, 1)
    IN IF Len(segments) > 0 THEN segments ELSE <<[text |-> text]>>

-----------------------------------------------------------------------------
(* document-manager.ts: the styles of createDocumentFromMarkdown *)

Times == "Times New Roman"

DEFAULT_MARKDOWN_STYLES ==
    [heading1 |-> [fontName |-> Times, fontSize |-> 24, bold |-> TRUE,
                   borderBottom |-> TRUE],
     heading2 |-> [fontName |-> Times, fontSize |-> 18, bold |-> TRUE,
                   borderBottom |-> TRUE],
     heading3 |-> [fontName |-> Times, fontSize |-> 14, bold |-> TRUE,
                   borderBottom |-> FALSE],
     heading4 |-> [fontName |-> Times, fontSize |-> 12, bold |-> TRUE,
                   borderBottom |-> FALSE],
     paragraph |-> [fontName |-> Times, fontSize |-> 12],
     bullets |-> [fontName |-> Times, fontSize |-> 12],
     ordered |-> [fontName |-> Times, fontSize |-> 12],
     blockquote |-> [fontName |-> Times, fontSize |-> 12, italic |-> TRUE]]

\* The object without keys: {} and what spreading undefined gives.
NoKeys == <<>>

\* { ...a, ...b }: the keys of b win.
Spread(a, b) == b @@ a

\* A faulty variant of MergeStyles: the fields of each bucket are merged.
MergeStylesPerField(defaults, overrides) ==
    [merged |-> [k \in DOMAIN defaults \cup DOMAIN overrides |->
                    IF k \in DOMAIN overrides /\ k \in DOMAIN defaults
                    THEN Spread(defaults[k], overrides[k])
                    ELSE Spread(defaults, overrides)[k]],
     defaults |-> defaults]

\* const mergedStyles = { ...DEFAULT_MARKDOWN_STYLES, ...styles }: the new
\* object, and the defaults object as the statement leaves it.
MergeStyles(defaults, overrides) ==
    [merged |-> Spread(defaults, overrides), defaults |-> defaults]

\* item.format, or the object without keys when the item has none.
FormatOf(item) == IF "format" \in DOMAIN item THEN item.format ELSE NoKeys

\* item.type || 'paragraph'
TypeOf(item) == IF "type" \in DOMAIN item THEN item.type ELSE "paragraph"

\* item.format?.level || 1
LevelOf(item) ==
    LET f == FormatOf(item)
    IN IF "level" \in DOMAIN f /\ f.level # 0 THEN f.level ELSE 1

\* A faulty variant of StyleKey: a heading of level 5 or more gets the
\* bucket of level 4.
StyleKeyClamps(item) ==
    LET type == TypeOf(item)
        f == FormatOf(item)
    IN IF type = "heading"
       THEN (IF LevelOf(item) = 1 THEN "heading1"
             ELSE IF LevelOf(item) = 2 THEN "heading2"
             ELSE IF LevelOf(item) = 3 THEN "heading3"
             ELSE "heading4")
       ELSE IF type = "paragraph"
       THEN (IF "italic" \in DOMAIN f /\ f.italic THEN "blockquote"
             ELSE "paragraph")
       ELSE IF type = "bullets" THEN "bullets"
       ELSE IF type = "ordered" THEN "ordered"
       ELSE "none"

\* The key of the style bucket the switch picks, or "none".
StyleKey(item) ==
    LET type == TypeOf(item)
        f == FormatOf(item)
    IN IF type = "heading"
       THEN (IF LevelOf(item) = 1 THEN "heading1"
             ELSE IF LevelOf(item) = 2 THEN "heading2"
             ELSE IF LevelOf(item) = 3 THEN "heading3"
             ELSE IF LevelOf(item) = 4 THEN "heading4"
             ELSE "none")
       ELSE IF type = "paragraph"
       THEN (IF "italic" \in DOMAIN f /\ f.italic THEN "blockquote"
             ELSE "paragraph")
       ELSE IF type = "bullets" THEN "bullets"
       ELSE IF type = "ordered" THEN "ordered"
       ELSE "none"

\* A faulty variant of MergeFormat: the bucket overrides the item's format.
MergeFormatBucketWins(elementStyle, format) == Spread(format, elementStyle)

\* format: { ...elementStyle, ...item.format }
MergeFormat(elementStyle, format) == Spread(elementStyle, format)

\* The callback of content.map in applyStylesToContent.
ApplyStyle(item, sheet) ==
    LET key == StyleKey(item)
    IN IF key \in DOMAIN sheet
       THEN ("format" :> MergeFormat(sheet[key], FormatOf(item))) @@ item
       ELSE item

applyStylesToContent(cont, sheet) ==
    [i \in 1..Len(cont) |-> ApplyStyle(cont[i], sheet)]

-----------------------------------------------------------------------------
(* document-manager.ts: DocumentManager *)

\* The value of an optional argument or field that was not given.
Undefined == "<undefined>"

\* The message of the error getSession throws, up to the filename.
NoSession == "No document session found"

NoError == "<none>"

Has(o, k) == k \in DOMAIN o

\* The truthiness of a boolean field that may be absent.
Flag(o, k) == k \in DOMAIN o /\ o[k] = TRUE

\* this.sessions.set(filename, { title, author, children: [] })
NewSession(title, author) ==
    [title |-> title, author |-> author, children |-> <<>>]

\* A faulty variant of createDocument: a session that exists is kept.
createDocumentKeeps(sess, filename, title, author) ==
    IF filename \in DOMAIN sess THEN sess
    ELSE (filename :> NewSession(title, author)) @@ sess

\* A faulty variant of createDocument: the elements of a session that
\* exists are kept under the new title and author.
createDocumentKeepsElements(sess, filename, title, author) ==
    (filename :> [title |-> title, author |-> author,
                  children |-> IF filename \in DOMAIN sess
                               THEN sess[filename].children ELSE <<>>])
    @@ sess

\* createDocument(filename, title, author): the sessions map after the call.
createDocument(sess, filename, title, author) ==
    (filename :> NewSession(title, author)) @@ sess

\* A faulty variant of getSession: an absent session is created.
getSessionCreates(sess, filename) ==
    [found |-> TRUE,
     session |-> IF filename \in DOMAIN sess THEN sess[filename]
                 ELSE NewSession(Undefined, Undefined)]

\* getSession: the session, or found = FALSE where the code throws.
getSession(sess, filename) ==
    IF filename \in DOMAIN sess
    THEN [found |-> TRUE, session |-> sess[filename]]
    ELSE [found |-> FALSE]

\* A faulty variant of getOrCreateSession: the session is always replaced.
getOrCreateSessionReplaces(sess, filename) ==
    (filename :> NewSession(Undefined, Undefined)) @@ sess

\* getOrCreateSession(filename): the sessions map after the call.
getOrCreateSession(sess, filename) ==
    IF filename \in DOMAIN sess THEN sess
    ELSE (filename :> NewSession(Undefined, Undefined)) @@ sess

\* A faulty variant of Push: the elements go to every session.
PushToAll(sess, filename, elements) ==
    [f \in DOMAIN sess |-> [sess[f] EXCEPT !.children = @ \o elements]]

\* session.children.push(...elements) on the session of filename.
Push(sess, filename, elements) ==
    [sess EXCEPT ![filename].children = @ \o elements]

\* buildDocument: what the Document holds of the session.
buildDocument(session) ==
    [creator |-> IF session.author = Undefined \/ session.author = ""
                 THEN "Word MCP Server" ELSE session.author,
     title |-> IF session.title = Undefined \/ session.title = ""
               THEN "Document" ELSE session.title,
     children |-> session.children]

\* A TextRun, or the ExternalHyperlink around it when the segment has a link.
TextRun(segment, format, bold, italics) ==
    [text |-> segment.text,
     font |-> IF Has(format, "fontName") /\ format.fontName # ""
              THEN format.fontName ELSE Times,
     bold |-> bold,
     italics |-> italics]
    @@ (IF Has(format, "fontSize") /\ format.fontSize # 0
        THEN [size |-> format.fontSize * 2] ELSE NoKeys)
    @@ (IF Has(format, "color") THEN [color |-> format.color] ELSE NoKeys)
    @@ (IF Has(segment, "link") THEN [link |-> segment.link] ELSE NoKeys)

\* /^[-*_]{3,}$/.test(text.trim())
IsHorizontalRule(text) ==
    LET t == Trim(text)
    IN Len(t) >= 3 /\ \A i \in 1..Len(t) : t[i] \in {"-", "*", "_"}

\* The Paragraph addParagraph builds.
ParagraphElement(text, format) ==
    IF IsHorizontalRule(text)
    THEN [children |-> <<[text |-> <<>>]>>, spacingAfter |-> 200,
          border |-> TRUE]
    ELSE IF Len(text) = 0 \/ Len(Trim(text)) = 0
    THEN [children |-> <<[text |-> <<>>]>>, spacingAfter |-> 200]
         @@ (IF Flag(format, "borderBottom") THEN [border |-> TRUE] ELSE NoKeys)
    ELSE LET segments == parseMarkdownFormatting(text)
         IN [children |->
                [i \in 1..Len(segments) |->
                    TextRun(segments[i], format,
                            Flag(format, "bold") \/ Flag(segments[i], "bold"),
                            Flag(format, "italic") \/ Flag(segments[i], "italic"))]]

\* options?.level || 1
HeadingLevelOf(options) ==
    IF Has(options, "level") /\ options.level # 0 THEN options.level ELSE 1

\* The Paragraph addHeading builds.
HeadingElement(text, options) ==
    LET level == HeadingLevelOf(options)
        segments == parseMarkdownFormatting(text)
    IN [children |->
           [i \in 1..Len(segments) |->
               TextRun(segments[i], options,
                       (IF Has(options, "bold") THEN options.bold ELSE TRUE)
                           \/ Flag(segments[i], "bold"),
                       Flag(segments[i], "italic"))]]
       @@ (IF Has(options, "color")
           THEN [spacingBefore |-> 240, spacingAfter |-> 120]
           ELSE IF level \in 1..6 THEN [heading |-> level] ELSE NoKeys)
       @@ (IF Flag(options, "borderBottom") THEN [border |-> TRUE] ELSE NoKeys)

\* The Paragraph built for one entry of a list; mark is "bullet" or
\* "numbering".
ListElement(item, format, mark) ==
    LET segments == parseMarkdownFormatting(item)
    IN (mark :> 0)
       @@ [children |->
              [i \in 1..Len(segments) |->
                  TextRun(segments[i], format, Flag(segments[i], "bold"),
                          Flag(segments[i], "italic"))]]

ListElements(its, format, mark) ==
    [i \in 1..Len(its) |-> ListElement(its[i], format, mark)]

\* A faulty variant of AfterSave: every save removes the session.
AfterSaveRemoves(sess, op, filename) ==
    [x \in DOMAIN sess \ {filename} |-> sess[x]]

\* A faulty variant of AfterSave: closeDocument keeps the session.
AfterSaveKeeps(sess, op, filename) == sess

\* What follows await this.saveDocument(filename) once it has resolved:
\* closeDocument goes on to this.sessions.delete(filename), the other
\* callers return.
AfterSave(sess, op, filename) ==
    IF op = "closeDocument" THEN [x \in DOMAIN sess \ {filename} |-> sess[x]]
    ELSE sess

\* A faulty variant of discardDocument: the session is kept.
discardDocumentKeeps(sess, filename) == sess

\* discardDocument: this.sessions.delete(filename)
discardDocument(sess, filename) ==
    [x \in DOMAIN sess \ {filename} |-> sess[x]]

\* The options object createDocumentFromContent builds from item.format for
\* an add call: the named fields, undefined where the format has none.
Pick(format, keys) == [k \in DOMAIN format \cap keys |-> format[k]]

ParagraphKeys ==
    {"fontName", "fontSize", "bold", "italic", "color", "borderBottom"}

HeadingKeys ==
    {"level", "fontName", "fontSize", "bold", "color", "borderBottom"}

ListKeys == {"fontName", "fontSize", "color"}

\* A faulty variant of ItemAdds: a heading with the empty text is added.
ItemAddsEmptyHeading(item) ==
    LET itemType == TypeOf(item)
    IN IF itemType \in {"paragraph", "heading"} THEN Has(item, "text")
       ELSE IF itemType \in {"bullets", "ordered"}
       THEN Has(item, "items") /\ Len(item.items) > 0
       ELSE FALSE

\* A faulty variant of ItemAdds: an item without a type is skipped.
ItemAddsTyped(item) ==
    IF ~Has(item, "type") THEN FALSE
    ELSE IF item.type = "paragraph" THEN Has(item, "text")
    ELSE IF item.type = "heading" THEN Has(item, "text") /\ Len(item.text) > 0
    ELSE IF item.type \in {"bullets", "ordered"}
    THEN Has(item, "items") /\ Len(item.items) > 0
    ELSE FALSE

\* The guards of the switch in createDocumentFromContent: the item makes an
\* add call.
ItemAdds(item) ==
    LET itemType == TypeOf(item)
    IN IF itemType = "paragraph" THEN Has(item, "text")
       ELSE IF itemType = "heading"
       THEN Has(item, "text") /\ Len(item.text) > 0
       ELSE IF itemType \in {"bullets", "ordered"}
       THEN Has(item, "items") /\ Len(item.items) > 0
       ELSE FALSE

\* The elements the add call made for an item pushes.
ItemElements(item) ==
    LET itemType == TypeOf(item)
        format == FormatOf(item)
    IN IF itemType = "paragraph"
       THEN <<ParagraphElement(item.text, Pick(format, ParagraphKeys))>>
       ELSE IF itemType = "heading"
       THEN <<HeadingElement(item.text, Pick(format, HeadingKeys))>>
       ELSE IF itemType = "bullets"
       THEN ListElements(item.items, Pick(format, ListKeys), "bullet")
       ELSE ListElements(item.items, Pick(format, ListKeys), "numbering")

\* A faulty variant of NextAdd: the loop ends after its first add call.
RECURSIVE NextAddOnce(_, _)
NextAddOnce(cont, i) ==
    IF i > Len(cont) THEN i
    ELSE IF i > 1 /\ \E k \in 1..(i - 1) : ItemAdds(cont[k])
    THEN Len(cont) + 1
    ELSE IF ItemAdds(cont[i]) THEN i
    ELSE NextAddOnce(cont, i + 1)

\* The index of the first item of cont from index i on that makes an add
\* call, or Len(cont) + 1: the loop runs up to its next await.
RECURSIVE NextAdd(_, _)
NextAdd(cont, i) ==
    IF i > Len(cont) THEN i
    ELSE IF ItemAdds(cont[i]) THEN i
    ELSE NextAdd(cont, i + 1)

-----------------------------------------------------------------------------
(* The inputs of parseMarkdown: a markdown text is built from lines, and    *)
(* each line is kept with what it was built from.                           *)

Blank == [k |-> "blank", s |-> <<>>]

BlankSpace == [k |-> "blank", s |-> <<" ">>]

\* A line of level '#' characters, the whitespace ws and the text.
HeadingLine(level, ws, text) ==
    [k |-> "heading", level |-> level, text |-> text,
     s |-> Repeat("#", level) \o ws \o text]

ParaLine(text) == [k |-> "para", text |-> text, s |-> text]

\* A line of a marker, the whitespace ws, the text and trailing whitespace.
BulletLine(marker, ws, text, trail) ==
    [k |-> "bullet", text |-> text, s |-> <<marker>> \o ws \o text \o trail]

OrderedLine(number, ws, text) ==
    [k |-> "ordered", text |-> text, s |-> number \o <<".">> \o ws \o text]

\* Every sequence of at most n elements of S.
SeqsUpTo(S, n) == UNION {[1..m -> S] : m \in 0..n}

\* The markdown text of a sequence of lines.
Markdown(ds) == JoinLines([i \in 1..Len(ds) |-> ds[i].s])

MaxLines == 5

MaxHeadingLines == 3

MaxListLines == 4

SpacingLines ==
    {Blank, BlankSpace,
     HeadingLine(1, <<" ">>, <<"T">>),
     ParaLine(<<"a">>),
     BulletLine("-", <<" ">>, <<"b">>, <<>>),
     OrderedLine(<<"1">>, <<" ">>, <<"c">>)}

HeadingLines ==
    {HeadingLine(l, <<" ">>, <<"T">>) : l \in 1..6}
    \cup {HeadingLine(2, <<" ", "\t">>, <<"a", " ", "#", "b">>),
          ParaLine(<<"p">>), BulletLine("-", <<" ">>, <<"b">>, <<>>), Blank}

ListLines ==
    {BulletLine("-", <<" ">>, <<"a">>, <<>>),
     BulletLine("*", <<" ">>, <<"b">>, <<>>),
     BulletLine("-", <<" ", " ", " ">>, <<"c", " ", " ", "d">>, <<" ">>),
     BulletLine("*", <<" ", " ">>, <<"*", "*", "e", "*", "*">>, <<>>),
     OrderedLine(<<"1", "0">>, <<" ">>, <<"o">>),
     ParaLine(<<"p">>), Blank}

MaxStrayLines == 3

\* A line that starts with '>'.
QuoteLine(ws, text) ==
    [k |-> "quote", text |-> text, s |-> <<">">> \o ws \o text]

\* Lines of every kind, lines of a lone marker character, an indented list
\* line and a line that starts with '>'.
StrayLines ==
    {Blank,
     ParaLine(<<"p">>),
     ParaLine(<<"-">>),
     ParaLine(<<"#">>),
     [k |-> "bullet", text |-> <<"i">>, s |-> <<" ", " ", "-", " ", "i">>],
     QuoteLine(<<" ">>, <<"q">>),
     HeadingLine(1, <<" ">>, <<"T">>),
     BulletLine("-", <<" ">>, <<"b">>, <<>>),
     OrderedLine(<<"1">>, <<" ">>, <<"c">>)}

-----------------------------------------------------------------------------
(* The inputs of parseMarkdownFormatting: spans and plain text, joined.     *)

MaxSpans == 3

Spans ==
    {<<"a">>,
     <<"b", " ">>,
     <<"*", "*", "B", "*", "*">>,
     <<"*", "i", "*">>,
     <<"[", "l", "]", "(", "u", ")">>,
     <<"[", "*", "*", "L", "*", "*", "]", "(", "v", ")">>}

RECURSIVE Concat(_)
Concat(ss) == IF Len(ss) = 0 THEN <<>> ELSE Head(ss) \o Concat(Tail(ss))

-----------------------------------------------------------------------------
(* The inputs of applyStylesToContent and of the style merge.               *)

MaxStyleItems == 2

StyleItems ==
    {[type |-> "paragraph", text |-> <<"p">>],
     [type |-> "paragraph", text |-> <<"p">>, format |-> [fontSize |-> 20]],
     [type |-> "paragraph", text |-> <<"q">>, format |-> [italic |-> TRUE]],
     [type |-> "heading", text |-> <<"T">>,
      format |-> [level |-> 1, borderBottom |-> TRUE]],
     [type |-> "heading", text |-> <<"U">>,
      format |-> [level |-> 3, borderBottom |-> FALSE, fontSize |-> 20]],
     [type |-> "heading", text |-> <<"V">>,
      format |-> [level |-> 5, borderBottom |-> FALSE]],
     [type |-> "heading", text |-> <<"W">>],
     [type |-> "heading", text |-> <<"X">>, format |-> [level |-> 4]],
     [type |-> "bullets", items |-> <<<<"a">>>>, format |-> [color |-> "FF0000"]],
     [type |-> "ordered", items |-> <<<<"a">>>>],
     [text |-> <<"n">>]}

StyleOverrides ==
    {NoKeys,
     [heading1 |-> [fontName |-> "Helvetica", fontSize |-> 48]],
     [paragraph |-> [fontSize |-> 12, color |-> "333333"],
      heading3 |-> [borderBottom |-> TRUE]],
     [bullets |-> [fontSize |-> 10, color |-> "0000FF"],
      blockquote |-> NoKeys]}

-----------------------------------------------------------------------------
(* The calls made on the DocumentManager.                                   *)

MaxCalls == 3

Files == {"a.docx", "b.docx"}

\* createDocument(filename, title, author)
Credits == {<<Undefined, Undefined>>, <<"Report", "Ann">>}

ParagraphTexts == {<<>>, <<"x">>, <<"*", "i", "*">>}

ParagraphFormats == {NoKeys, [bold |-> TRUE, fontSize |-> 14]}

HeadingTexts == {<<"H">>}

HeadingOptions == {NoKeys, [level |-> 2, borderBottom |-> TRUE]}

Lists == {<<<<"a">>, <<"*", "*", "b", "*", "*">>>>}

ListFormats == {NoKeys}

AddOps == {"addParagraph", "addHeading", "addBulletList", "addOrderedList"}

MaxContent == 2

MaxBatchCalls == 2

\* The items of the content arrays of createDocumentFromContent: of each
\* type and of no type, with the text or the items given, empty and missing.
ContentItems ==
    {[type |-> "paragraph", text |-> <<"p">>],
     [type |-> "paragraph"],
     [type |-> "paragraph", text |-> <<>>],
     [type |-> "paragraph", text |-> <<"-", "-", "-">>],
     [type |-> "heading", text |-> <<"H">>, format |-> [level |-> 2]],
     [type |-> "heading"],
     [type |-> "heading", text |-> <<>>],
     [type |-> "bullets", items |-> <<<<"a">>, <<"b">>>>],
     [type |-> "bullets"],
     [type |-> "bullets", items |-> <<>>],
     [type |-> "ordered", items |-> <<<<"c">>>>],
     [type |-> "ordered"],
     [type |-> "ordered", items |-> <<>>],
     [text |-> <<"n">>],
     [text |-> <<>>],
     NoKeys,
     [items |-> <<<<"z">>>>]}

\* A text that names the file it is written for.
Tag == ("a.docx" :> <<"A">>) @@ ("b.docx" :> <<"B">>)

\* The content array of the calls that run beside other calls: a heading,
\* an item that is skipped and a list, with texts that name the file.
ContentFor(filename) ==
    <<[type |-> "heading", text |-> Tag[filename], format |-> [level |-> 1]],
      [type |-> "paragraph"],
      [type |-> "bullets",
       items |-> <<Tag[filename], <<"*", "*", "b", "*", "*">>>>]>>

\* The markdown texts of createDocumentFromMarkdown.
Markdowns ==
    {<<"#", " ", "T", "\n", "\n", "-", " ", "a">>,
     <<"#", "#", "#", " ", "U", "\n", "p">>}

\* The styles of createDocumentFromMarkdown.
MarkdownStyles ==
    {NoKeys,
     [heading1 |-> [borderBottom |-> FALSE],
      heading3 |-> [borderBottom |-> TRUE]]}

MaxRenderItems == 1

\* The text **b***i*: a bold span followed by an italic one.
BoldThenItalic == <<"*", "*", "b", "*", "*", "*", "i", "*">>

\* The items whose rendering is looked at: paragraphs of rule-like texts,
\* paragraphs and headings with and without bold and italic in the text and
\* in the format, and lists with entries that are empty or blank or padded.
RenderItems ==
    {[type |-> "paragraph", text |-> t] :
        t \in {<<"-", "-", "-">>, <<"*", "*", "*">>, <<"_", "_", "_", "_">>,
               <<" ", "-", "-", "-", " ">>, <<"-", "*", "_">>, <<"-", "-">>,
               <<"-", "-", "a">>}}
    \cup {[type |-> "paragraph", text |-> t] : t \in {<<"x">>, BoldThenItalic}}
    \cup {[type |-> "paragraph", text |-> t, format |-> fm] :
             t \in {<<"x">>, BoldThenItalic},
             fm \in {[bold |-> TRUE], [italic |-> TRUE]}}
    \cup {[type |-> "heading", text |-> t] : t \in {<<"H">>, BoldThenItalic}}
    \cup {[type |-> "heading", text |-> t, format |-> fm] :
             t \in {<<"H">>, BoldThenItalic},
             fm \in {[level |-> 2, bold |-> FALSE],
                     [level |-> 2, italic |-> TRUE],
                     [bold |-> TRUE]}}
    \cup {[type |-> ty, items |-> its] :
             ty \in {"bullets", "ordered"},
             its \in {<<<<"a">>, <<>>, <<" ">>>>, <<<<>>, <<" ">>>>,
                      <<<<" ", "x", " ">>>>}}

NoEvent == [op |-> "none"]

\* A call, its arguments and how it ended.
CallEvent(op, filename, args, error) ==
    [op |-> op, file |-> filename, step |-> "call", args |-> args,
     error |-> error]

\* The step of a call in flight.
StepEvent(task, step, error) ==
    [op |-> task.op, file |-> task.file, step |-> step, args |-> NoKeys,
     error |-> error]

Remove(f, k) == [x \in DOMAIN f \ {k} |-> f[x]]

-----------------------------------------------------------------------------
(* State *)

parserVars == <<src, md, items>>
formatterVars == <<fmtIn, segs>>
styleVars == <<content, styles, mergedStyles, styled>>
managerVars == <<sessions, disk, tasks, event, nCalls>>

ParserIdle == src = <<>> /\ md = <<>> /\ items = <<>>

FormatterIdle == fmtIn = <<>> /\ segs = <<>>

StylesIdle ==
    content = <<>> /\ styles = NoKeys /\ mergedStyles = NoKeys /\ styled = <<>>

ManagerIdle ==
    /\ sessions = <<>> /\ disk = <<>> /\ tasks = <<>>
    /\ event = NoEvent /\ nCalls = 0

\* A new DocumentManager: no session, no call made, nothing written.
Init ==
    /\ pc = "run"
    /\ defaultStyles = DEFAULT_MARKDOWN_STYLES
    /\ ParserIdle /\ FormatterIdle /\ StylesIdle /\ ManagerIdle

InitParser(lines, n) ==
    /\ pc = "input"
    /\ defaultStyles = DEFAULT_MARKDOWN_STYLES
    /\ src \in SeqsUpTo(lines, n)
    /\ md = Markdown(src)
    /\ items = <<>>
    /\ FormatterIdle /\ StylesIdle /\ ManagerIdle

InitSpacing == InitParser(SpacingLines, MaxLines)

InitHeadings == InitParser(HeadingLines, MaxHeadingLines)

InitLists == InitParser(ListLines, MaxListLines)

InitStray == InitParser(StrayLines, MaxStrayLines)

InitFormatting ==
    /\ pc = "input"
    /\ defaultStyles = DEFAULT_MARKDOWN_STYLES
    /\ \E ss \in SeqsUpTo(Spans, MaxSpans) : fmtIn = Concat(ss)
    /\ segs = <<>>
    /\ ParserIdle /\ StylesIdle /\ ManagerIdle

InitStyles ==
    /\ pc = "input"
    /\ defaultStyles = DEFAULT_MARKDOWN_STYLES
    /\ content \in SeqsUpTo(StyleItems, MaxStyleItems)
    /\ styles \in StyleOverrides
    /\ mergedStyles = NoKeys
    /\ styled = <<>>
    /\ ParserIdle /\ FormatterIdle /\ ManagerIdle

-----------------------------------------------------------------------------
(* Actions of the pure functions *)

\* const content = parseMarkdown(markdown)
Parse ==
    /\ pc = "input"
    /\ items' = parseMarkdown(md)
    /\ pc' = "done"
    /\ UNCHANGED <<src, md, formatterVars, styleVars, defaultStyles, managerVars>>

\* const segments = parseMarkdownFormatting(text)
Format ==
    /\ pc = "input"
    /\ segs' = parseMarkdownFormatting(fmtIn)
    /\ pc' = "done"
    /\ UNCHANGED <<fmtIn, parserVars, styleVars, defaultStyles, managerVars>>

\* const mergedStyles = { ...DEFAULT_MARKDOWN_STYLES, ...styles }
Merge ==
    /\ pc = "input"
    /\ LET r == MergeStyles(defaultStyles, styles)
       IN /\ mergedStyles' = r.merged
          /\ defaultStyles' = r.defaults
    /\ pc' = "merged"
    /\ UNCHANGED <<content, styles, styled, parserVars, formatterVars, managerVars>>

\* const styledContent = this.applyStylesToContent(content, mergedStyles)
Apply ==
    /\ pc = "merged"
    /\ styled' = applyStylesToContent(content, mergedStyles)
    /\ pc' = "done"
    /\ UNCHANGED <<content, styles, mergedStyles, defaultStyles, parserVars,
                   formatterVars, managerVars>>

-----------------------------------------------------------------------------
(* Actions of the DocumentManager *)

others == <<pc, parserVars, formatterVars, styleVars, defaultStyles>>

CreateDocument(filename, title, author) ==
    /\ pc = "run" /\ nCalls < MaxCalls
    /\ sessions' = createDocument(sessions, filename, title, author)
    /\ event' = CallEvent("createDocument", filename,
                          [title |-> title, author |-> author], NoError)
    /\ nCalls' = nCalls + 1
    /\ UNCHANGED <<disk, tasks, others>>

\* The body of addParagraph.
AddParagraphTo(filename, text, format) ==
    /\ sessions' = Push(getOrCreateSession(sessions, filename), filename,
                        <<ParagraphElement(text, format)>>)
    /\ event' = CallEvent("addParagraph", filename,
                          [text |-> text, format |-> format], NoError)
    /\ nCalls' = nCalls + 1
    /\ UNCHANGED <<disk, tasks>>

AddParagraph(filename, text, format) ==
    /\ pc = "run" /\ nCalls < MaxCalls
    /\ AddParagraphTo(filename, text, format)
    /\ UNCHANGED others

AddHeading(filename, text, options) ==
    /\ pc = "run" /\ nCalls < MaxCalls
    /\ sessions' = Push(getOrCreateSession(sessions, filename), filename,
                        <<HeadingElement(text, options)>>)
    /\ event' = CallEvent("addHeading", filename,
                          [text |-> text, format |-> options], NoError)
    /\ nCalls' = nCalls + 1
    /\ UNCHANGED <<disk, tasks, others>>

AddBulletList(filename, its, format) ==
    /\ pc = "run" /\ nCalls < MaxCalls
    /\ sessions' = Push(getOrCreateSession(sessions, filename), filename,
                        ListElements(its, format, "bullet"))
    /\ event' = CallEvent("addBulletList", filename,
                          [items |-> its, format |-> format], NoError)
    /\ nCalls' = nCalls + 1
    /\ UNCHANGED <<disk, tasks, others>>

AddOrderedList(filename, its, format) ==
    /\ pc = "run" /\ nCalls < MaxCalls
    /\ sessions' = Push(getOrCreateSession(sessions, filename), filename,
                        ListElements(its, format, "numbering"))
    /\ event' = CallEvent("addOrderedList", filename,
                          [items |-> its, format |-> format], NoError)
    /\ nCalls' = nCalls + 1
    /\ UNCHANGED <<disk, tasks, others>>

\* The synchronous part of saveDocument, up to await Packer.toBuffer(doc):
\* op is the call it runs for, saveDocument or closeDocument.
StartSave(op, filename) ==
    /\ pc = "run" /\ nCalls < MaxCalls
    /\ LET r == getSession(sessions, filename)
       IN IF r.found
          THEN /\ tasks' = (nCalls + 1 :> [op |-> op, file |-> filename,
                                           pc |-> "pack",
                                           doc |-> buildDocument(r.session)])
                           @@ tasks
               /\ event' = CallEvent(op, filename, NoKeys, NoError)
          ELSE /\ tasks' = tasks
               /\ event' = CallEvent(op, filename, NoKeys, NoSession)
    /\ nCalls' = nCalls + 1
    /\ UNCHANGED <<sessions, disk, others>>

SaveDocument(filename) == StartSave("saveDocument", filename)

CloseDocument(filename) == StartSave("closeDocument", filename)

DiscardDocument(filename) ==
    /\ pc = "run" /\ nCalls < MaxCalls
    /\ sessions' = discardDocument(sessions, filename)
    /\ event' = CallEvent("discardDocument", filename, NoKeys, NoError)
    /\ nCalls' = nCalls + 1
    /\ UNCHANGED <<disk, tasks, others>>

\* Packer.toBuffer(doc) resolves: fs.writeFile is called and awaited.
Packed(id) ==
    /\ pc = "run" /\ id \in DOMAIN tasks /\ tasks[id].pc = "pack"
    /\ tasks' = [tasks EXCEPT ![id].pc = "write"]
    /\ event' = StepEvent(tasks[id], "packed", NoError)
    /\ UNCHANGED <<sessions, disk, nCalls, others>>

\* Packer.toBuffer(doc) rejects: the call rejects.
PackFailed(id) ==
    /\ pc = "run" /\ id \in DOMAIN tasks /\ tasks[id].pc = "pack"
    /\ tasks' = Remove(tasks, id)
    /\ event' = StepEvent(tasks[id], "failed", "toBuffer failed")
    /\ UNCHANGED <<sessions, disk, nCalls, others>>

\* fs.writeFile resolves: saveDocument returns, and closeDocument goes on
\* to this.sessions.delete(filename).
Written(id) ==
    /\ pc = "run" /\ id \in DOMAIN tasks /\ tasks[id].pc = "write"
    /\ disk' = (tasks[id].file :> tasks[id].doc) @@ disk
    /\ sessions' = AfterSave(sessions, tasks[id].op, tasks[id].file)
    /\ tasks' = Remove(tasks, id)
    /\ event' = StepEvent(tasks[id], "written", NoError)
    /\ UNCHANGED <<nCalls, others>>

\* fs.writeFile rejects: the call rejects.
WriteFailed(id) ==
    /\ pc = "run" /\ id \in DOMAIN tasks /\ tasks[id].pc = "write"
    /\ tasks' = Remove(tasks, id)
    /\ event' = StepEvent(tasks[id], "failed", "writeFile failed")
    /\ UNCHANGED <<sessions, disk, nCalls, others>>

\* The task of createDocumentFromContent after await this.createDocument:
\* suspended before the loop over the items. The field alone records, for
\* the properties, that no other call was in flight when the call was made.
ContentTask(op, filename, cont, alone) ==
    [op |-> op, file |-> filename, pc |-> "items", content |-> cont,
     next |-> 1, alone |-> alone]

\* createDocumentFromContent up to its first await: createDocument replaces
\* the session of filename by an empty one.
StartFromContent(filename, cont, title, author) ==
    /\ sessions' = createDocument(sessions, filename, title, author)
    /\ tasks' = (nCalls + 1 :>
                    ContentTask("createDocumentFromContent", filename, cont,
                                DOMAIN tasks = {}))
                @@ tasks
    /\ event' = CallEvent("createDocumentFromContent", filename,
                          [content |-> cont, title |-> title,
                           author |-> author], NoError)
    /\ nCalls' = nCalls + 1
    /\ disk' = disk

CreateDocumentFromContent(filename, cont, title, author) ==
    /\ pc = "run" /\ nCalls < MaxCalls
    /\ StartFromContent(filename, cont, title, author)
    /\ UNCHANGED others

\* A call of addParagraph made, and awaited, before the one call of
\* createDocumentFromContent: the file then has a session with an element.
AddEarlier ==
    /\ pc = "content" /\ nCalls = 0
    /\ AddParagraphTo("a.docx", <<"o">>, NoKeys)
    /\ UNCHANGED others

\* The one call of createDocumentFromContent with the content array given.
CreateFromGiven ==
    /\ pc = "content"
    /\ StartFromContent("a.docx", content, "Report", "Ann")
    /\ pc' = "run"
    /\ UNCHANGED <<parserVars, formatterVars, styleVars, defaultStyles>>

\* createDocumentFromContent resumes after an await: the loop runs on to the
\* next item that makes an add call, which pushes its elements and is
\* awaited; after the last item saveDocument is called, which throws without
\* a session and else builds the document and awaits Packer.toBuffer.
ContentStep(id) ==
    /\ pc = "run" /\ id \in DOMAIN tasks /\ tasks[id].pc = "items"
    /\ LET task == tasks[id]
           j == NextAdd(task.content, task.next)
           r == getSession(sessions, task.file)
       IN IF j <= Len(task.content)
          THEN /\ sessions' = Push(getOrCreateSession(sessions, task.file),
                                   task.file, ItemElements(task.content[j]))
               /\ tasks' = [tasks EXCEPT ![id].next = j + 1]
               /\ event' = StepEvent(task, "added", NoError)
          ELSE IF r.found
          THEN /\ sessions' = sessions
               /\ tasks' = (id :> [op |-> task.op, file |-> task.file,
                                   pc |-> "pack",
                                   doc |-> buildDocument(r.session),
                                   content |-> task.content,
                                   alone |-> task.alone])
                           @@ tasks
               /\ event' = StepEvent(task, "saving", NoError)
          ELSE /\ sessions' = sessions
               /\ tasks' = Remove(tasks, id)
               /\ event' = StepEvent(task, "failed", NoSession)
    /\ UNCHANGED <<disk, nCalls, others>>

\* createDocumentFromMarkdown up to await import('./markdown-parser.js').
CreateDocumentFromMarkdown(filename, markdown, title, author, sheet) ==
    /\ pc = "run" /\ nCalls < MaxCalls
    /\ tasks' = (nCalls + 1 :>
                    [op |-> "createDocumentFromMarkdown", file |-> filename,
                     pc |-> "import", markdown |-> markdown,
                     title |-> title, author |-> author, styles |-> sheet,
                     alone |-> DOMAIN tasks = {}])
                @@ tasks
    /\ event' = CallEvent("createDocumentFromMarkdown", filename,
                          [markdown |-> markdown, title |-> title,
                           author |-> author, styles |-> sheet], NoError)
    /\ nCalls' = nCalls + 1
    /\ UNCHANGED <<sessions, disk, others>>

\* The import resolves: the markdown is parsed, the styles are merged and
\* applied, and createDocumentFromContent runs up to its first await; the
\* markdown and styles arguments stay in the scope of the call.
Imported(id) ==
    /\ pc = "run" /\ id \in DOMAIN tasks /\ tasks[id].pc = "import"
    /\ LET task == tasks[id]
           merged == MergeStyles(defaultStyles, task.styles)
           styledContent == applyStylesToContent(parseMarkdown(task.markdown),
                                                 merged.merged)
       IN /\ sessions' = createDocument(sessions, task.file, task.title,
                                         task.author)
          /\ tasks' = (id :> (ContentTask(task.op, task.file, styledContent,
                                           task.alone)
                               @@ [markdown |-> task.markdown,
                                   styles |-> task.styles]))
                      @@ tasks
          /\ defaultStyles' = merged.defaults
          /\ event' = StepEvent(task, "imported", NoError)
    /\ UNCHANGED <<disk, nCalls, pc, parserVars, formatterVars, styleVars>>

Next ==
    \/ \E f \in Files, c \in Credits : CreateDocument(f, c[1], c[2])
    \/ \E f \in Files, t \in ParagraphTexts, fm \in ParagraphFormats :
          AddParagraph(f, t, fm)
    \/ \E f \in Files, t \in HeadingTexts, o \in HeadingOptions :
          AddHeading(f, t, o)
    \/ \E f \in Files, l \in Lists, fm \in ListFormats : AddBulletList(f, l, fm)
    \/ \E f \in Files, l \in Lists, fm \in ListFormats : AddOrderedList(f, l, fm)
    \/ \E f \in Files : SaveDocument(f)
    \/ \E f \in Files : CloseDocument(f)
    \/ \E f \in Files : DiscardDocument(f)
    \/ \E id \in 1..MaxCalls : Packed(id)
    \/ \E id \in 1..MaxCalls : PackFailed(id)
    \/ \E id \in 1..MaxCalls : Written(id)
    \/ \E id \in 1..MaxCalls : WriteFailed(id)

Spec == Init /\ [][Next]_vars

SpecSpacing == InitSpacing /\ [][Parse]_vars

SpecHeadings == InitHeadings /\ [][Parse]_vars

SpecLists == InitLists /\ [][Parse]_vars

SpecStray == InitStray /\ [][Parse]_vars

SpecFormatting == InitFormatting /\ [][Format]_vars

StyleNext == Merge \/ Apply

InitContent ==
    /\ pc = "content"
    /\ defaultStyles = DEFAULT_MARKDOWN_STYLES
    /\ content \in SeqsUpTo(ContentItems, MaxContent)
    /\ styles = NoKeys /\ mergedStyles = NoKeys /\ styled = <<>>
    /\ ParserIdle /\ FormatterIdle /\ ManagerIdle

\* The content array is one of the arrays of RenderItems.
InitRender ==
    /\ pc = "content"
    /\ defaultStyles = DEFAULT_MARKDOWN_STYLES
    /\ content \in SeqsUpTo(RenderItems, MaxRenderItems)
    /\ styles = NoKeys /\ mergedStyles = NoKeys /\ styled = <<>>
    /\ ParserIdle /\ FormatterIdle /\ ManagerIdle

ContentNext ==
    \/ AddEarlier
    \/ CreateFromGiven
    \/ \E id \in 1..MaxCalls : ContentStep(id)
    \/ \E id \in 1..MaxCalls : Packed(id)
    \/ \E id \in 1..MaxCalls : PackFailed(id)
    \/ \E id \in 1..MaxCalls : Written(id)
    \/ \E id \in 1..MaxCalls : WriteFailed(id)

SpecContent == InitContent /\ [][ContentNext]_vars

SpecRender == InitRender /\ [][ContentNext]_vars

\* The calls that run beside createDocumentFromContent, on the same file
\* and on another one.
BatchCall ==
    /\ nCalls < MaxBatchCalls
    /\ \/ CreateDocument("a.docx", "Plan", "Bob")
       \/ \E f \in Files :
             AddHeading(f, Tag[f], [level |-> 2, borderBottom |-> TRUE])
       \/ SaveDocument("a.docx")
       \/ CloseDocument("a.docx")
       \/ DiscardDocument("a.docx")
       \/ \E f \in Files :
             CreateDocumentFromContent(f, ContentFor(f), "Report", "Ann")

BatchNext ==
    \/ BatchCall
    \/ \E id \in 1..MaxCalls : ContentStep(id)
    \/ \E id \in 1..MaxCalls : Packed(id)
    \/ \E id \in 1..MaxCalls : PackFailed(id)
    \/ \E id \in 1..MaxCalls : Written(id)
    \/ \E id \in 1..MaxCalls : WriteFailed(id)

SpecBatch == Init /\ [][BatchNext]_vars

\* The calls of a client that awaits each call before the next: it creates
\* a document from markdown or from content, adds a paragraph and saves.
MarkdownCall ==
    /\ DOMAIN tasks = {}
    /\ \/ \E m \in Markdowns, o \in MarkdownStyles :
             CreateDocumentFromMarkdown("a.docx", m, "Report", "Ann", o)
       \/ CreateDocumentFromContent("a.docx", ContentFor("a.docx"),
                                    "Report", "Ann")
       \/ AddParagraph("a.docx", <<"x">>, NoKeys)
       \/ SaveDocument("a.docx")

MarkdownNext ==
    \/ MarkdownCall
    \/ \E id \in 1..MaxCalls : Imported(id)
    \/ \E id \in 1..MaxCalls : ContentStep(id)
    \/ \E id \in 1..MaxCalls : Packed(id)
    \/ \E id \in 1..MaxCalls : PackFailed(id)
    \/ \E id \in 1..MaxCalls : Written(id)
    \/ \E id \in 1..MaxCalls : WriteFailed(id)

SpecMarkdown == Init /\ [][MarkdownNext]_vars

SpecStyles == InitStyles /\ [][StyleNext]_vars

-----------------------------------------------------------------------------
(* Properties of parseMarkdown *)

Spacer == [type |-> "paragraph", text |-> <<>>]

\* An empty-text paragraph item.
IsSpacer(item) ==
    /\ TypeOf(item) = "paragraph"
    /\ "text" \in DOMAIN item
    /\ Len(item.text) = 0

IsBlank(d) == d.k = "blank"

\* The maximal runs of blank lines of ds that have a content line on both
\* sides, each as <<first, last>>.
InteriorRuns(ds) ==
    {r \in (2..Len(ds)) \X (1..(Len(ds) - 1)) :
        /\ r[1] <= r[2]
        /\ \A i \in r[1]..r[2] : IsBlank(ds[i])
        /\ ~IsBlank(ds[r[1] - 1])
        /\ ~IsBlank(ds[r[2] + 1])}

\* The number of spacers the blank runs between content lines of ds call
\* for: n - 1 for a run of n, after n blank lines and seen content.
RECURSIVE InteriorSpacers(_, _, _)
InteriorSpacers(ds, n, seen) ==
    IF Len(ds) = 0 THEN 0
    ELSE IF IsBlank(Head(ds)) THEN InteriorSpacers(Tail(ds), n + 1, seen)
    ELSE (IF seen THEN Max(0, n - 1) ELSE 0)
         + InteriorSpacers(Tail(ds), 0, TRUE)

RECURSIVE CountSpacers(_)
CountSpacers(its) ==
    IF Len(its) = 0 THEN 0
    ELSE (IF IsSpacer(Head(its)) THEN 1 ELSE 0) + CountSpacers(Tail(its))

\* The output for the lines before and after an interior run r of src.
ItemsBefore(r) == parseMarkdown(Markdown(SubSeq(src, 1, r[1] - 1)))
ItemsAfter(r) == parseMarkdown(Markdown(SubSeq(src, r[2] + 1, Len(src))))

\* C1: two content blocks separated by a run of N blank lines have exactly
\* max(0, N - 1) empty-text paragraph items between their items, whatever
\* the kinds of the two blocks: the output is the items of the lines before
\* the run, ending with the item of the preceding block, then N - 1 spacers,
\* then the items of the lines after it, starting with the item of the
\* following block.
C1_SpacerLaw ==
    pc = "done" =>
        \A r \in InteriorRuns(src) :
            LET n == r[2] - r[1] + 1
                before == ItemsBefore(r)
                after == ItemsAfter(r)
            IN /\ items = before \o Repeat(Spacer, Max(0, n - 1)) \o after
               /\ Len(before) > 0 /\ ~IsSpacer(before[Len(before)])
               /\ Len(after) > 0 /\ ~IsSpacer(after[1])

\* C1: a heading and a list separated by three blank lines gave two spacers.
C1_Witness ==
    /\ pc = "done"
    /\ Len(src) = 5
    /\ src[1].k = "heading" /\ src[5].k = "bullet"
    /\ \A i \in 2..4 : IsBlank(src[i])
    /\ Len(items) = 4
    /\ items[1].type = "heading" /\ IsSpacer(items[2]) /\ IsSpacer(items[3])
    /\ items[4].type = "bullets"

IsHeadingBlankPara ==
    /\ Len(src) = 3
    /\ src[1].k = "heading" /\ IsBlank(src[2]) /\ src[3].k = "para"

IsParaTwoBlanksPara ==
    /\ Len(src) = 4
    /\ src[1].k = "para" /\ IsBlank(src[2]) /\ IsBlank(src[3])
    /\ src[4].k = "para"

\* C2, as claimed: every blank line between two blocks yields one empty-text
\* paragraph item; a heading, one blank line and a paragraph give at least
\* 3 items, and two paragraphs separated by two blank lines give exactly the
\* 4 items paragraph, empty, empty, paragraph.
C2_EveryBlankLineIsSpacer ==
    pc = "done" =>
        /\ \A r \in InteriorRuns(src) :
              items = ItemsBefore(r) \o Repeat(Spacer, r[2] - r[1] + 1)
                      \o ItemsAfter(r)
        /\ IsHeadingBlankPara => Len(items) >= 3
        /\ IsParaTwoBlanksPara =>
              items = <<[type |-> "paragraph", text |-> src[1].text],
                        Spacer, Spacer,
                        [type |-> "paragraph", text |-> src[4].text]>>

\* C2, amended: every blank line of a run between two blocks but the first
\* yields one empty-text paragraph item; a heading, one blank line and a
\* paragraph give exactly the 2 items heading, paragraph, and two paragraphs
\* separated by two blank lines give exactly the 3 items paragraph, empty,
\* paragraph.
C2_BlankLinesButFirst ==
    pc = "done" =>
        /\ (Len(src) > 0 /\ ~IsBlank(src[1])) =>
              CountSpacers(items) = InteriorSpacers(src, 0, FALSE)
        /\ IsHeadingBlankPara =>
              items = <<[type |-> "heading", text |-> src[1].text,
                         format |-> [level |-> src[1].level,
                                     borderBottom |-> src[1].level <= 2]],
                        [type |-> "paragraph", text |-> src[3].text]>>
        /\ IsParaTwoBlanksPara =>
              items = <<[type |-> "paragraph", text |-> src[1].text],
                        Spacer,
                        [type |-> "paragraph", text |-> src[4].text]>>

\* C2: two paragraphs separated by two blank lines were parsed to 3 items.
C2_Witness ==
    pc = "done" /\ IsParaTwoBlanksPara /\ Len(items) = 3 /\ IsSpacer(items[2])

\* C3: a run of blank lines before the first or after the last content
\* block contributes no item: the first and the last output item are never
\* spacers.
C3_NoSpacerAtEnds ==
    (pc = "done" /\ Len(items) > 0) =>
        ~IsSpacer(items[1]) /\ ~IsSpacer(items[Len(items)])

RECURSIVE HeadingItemsOf(_)
HeadingItemsOf(its) ==
    IF Len(its) = 0 THEN <<>>
    ELSE (IF TypeOf(Head(its)) = "heading" THEN <<Head(its)>> ELSE <<>>)
         \o HeadingItemsOf(Tail(its))

\* The heading items the heading lines of ds call for.
RECURSIVE ExpectedHeadings(_)
ExpectedHeadings(ds) ==
    IF Len(ds) = 0 THEN <<>>
    ELSE (IF Head(ds).k = "heading"
          THEN <<[type |-> "heading", text |-> Head(ds).text,
                  format |-> [level |-> Head(ds).level,
                              borderBottom |-> Head(ds).level <= 2]]>>
          ELSE <<>>)
         \o ExpectedHeadings(Tail(ds))

\* C4: each line of L '#' (L from 1 to 6), whitespace and a text T yields
\* exactly one heading item with text T, level L and borderBottom = (L <= 2),
\* also when heading lines follow each other directly: the heading items of
\* the output are those of the heading lines, one each, in order.
C4_HeadingLaw ==
    pc = "done" => HeadingItemsOf(items) = ExpectedHeadings(src)

\* C4: three heading lines in a row, of levels 1, 6 and 3, gave three items.
C4_Witness ==
    /\ pc = "done"
    /\ Len(src) = 3
    /\ \A i \in 1..3 : src[i].k = "heading"
    /\ src[1].level = 1 /\ src[2].level = 6 /\ src[3].level = 3
    /\ Len(items) = 3
    /\ items[2].format = [level |-> 6, borderBottom |-> FALSE]

RECURSIVE BulletItemsOf(_)
BulletItemsOf(its) ==
    IF Len(its) = 0 THEN <<>>
    ELSE (IF TypeOf(Head(its)) = "bullets" THEN <<Head(its)>> ELSE <<>>)
         \o BulletItemsOf(Tail(its))

\* The bullets items the maximal runs of bullet lines of ds call for; cur
\* is the run being read.
RECURSIVE ExpectedBullets(_, _)
ExpectedBullets(ds, cur) ==
    LET close == IF Len(cur) > 0
                 THEN <<[type |-> "bullets", items |-> cur]>> ELSE <<>>
    IN IF Len(ds) = 0 THEN close
       ELSE IF Head(ds).k = "bullet"
       THEN ExpectedBullets(Tail(ds), Append(cur, Head(ds).text))
       ELSE close \o ExpectedBullets(Tail(ds), <<>>)

\* C5: a contiguous run of unordered list lines, with '-' and '*' markers in
\* any mixture, yields exactly one bullets item whose items are the trimmed
\* texts after the markers, in input order, with internal spacing and inline
\* markers unchanged.
C5_BulletRunLaw ==
    pc = "done" => BulletItemsOf(items) = ExpectedBullets(src, <<>>)

\* C5: four list lines with both markers, extra spaces and inline markers
\* gave one bullets item of four entries.
C5_Witness ==
    /\ pc = "done"
    /\ Len(src) = 4
    /\ \A i \in 1..4 : src[i].k = "bullet"
    /\ {src[i].s[1] : i \in 1..4} = {"-", "*"}
    /\ \E i \in 1..4 : src[i].text = <<"c", " ", " ", "d">>
    /\ \E i \in 1..4 : src[i].text = <<"*", "*", "e", "*", "*">>
    /\ Len(items) = 1
    /\ Len(items[1].items) = 4

\* t occurs in s.
Contains(s, t) ==
    \E i \in 0..(Len(s) - Len(t)) : SubSeq(s, i + 1, i + Len(t)) = t

\* The text t appears in the text or in an entry of the items of item.
AppearsIn(t, item) ==
    \/ Has(item, "text") /\ Contains(item.text, t)
    \/ Has(item, "items")
          /\ \E i \in 1..Len(item.items) : Contains(item.items[i], t)

\* C15: parseMarkdown drops no content: the text of every non-blank input
\* line, without its heading or list marker, appears in the text or the
\* items of some output item, also for lines of stray marker characters.
C15_NoContentDropped ==
    pc = "done" =>
        \A i \in 1..Len(src) :
            ~IsBlank(src[i]) =>
                \E j \in 1..Len(items) : AppearsIn(src[i].text, items[j])

RECURSIVE NonSpacers(_)
NonSpacers(its) ==
    IF Len(its) = 0 THEN <<>>
    ELSE (IF IsSpacer(Head(its)) THEN <<>> ELSE <<Head(its)>>)
         \o NonSpacers(Tail(its))

\* The kind of the block a line belongs to.
BlockKind(d) ==
    IF d.k = "bullet" THEN "bullets"
    ELSE IF d.k = "ordered" THEN "ordered"
    ELSE IF d.k = "heading" THEN "heading"
    ELSE "paragraph"

\* The kinds of the blocks of ds in input order; prev is the kind of the
\* block the line before belongs to, "none" after a blank line.  A heading
\* line is a block of its own, adjacent lines of one other kind are one
\* block.
RECURSIVE BlockKinds(_, _)
BlockKinds(ds, prev) ==
    IF Len(ds) = 0 THEN <<>>
    ELSE IF IsBlank(Head(ds)) THEN BlockKinds(Tail(ds), "none")
    ELSE LET kind == BlockKind(Head(ds))
         IN (IF kind = "heading" \/ kind # prev THEN <<kind>> ELSE <<>>)
            \o BlockKinds(Tail(ds), kind)

IsHeadingParaList ==
    /\ Len(src) = 5
    /\ src[1].k = "heading" /\ IsBlank(src[2]) /\ src[3].k = "para"
    /\ IsBlank(src[4]) /\ src[5].k = "bullet"

\* C16: parseMarkdown emits one item per source block, in input order: the
\* non-spacer items are of the kinds of the blocks of the input, one each;
\* a heading, a paragraph and a list separated by single blank lines give
\* exactly heading, paragraph, bullets.
C16_OneItemPerBlock ==
    pc = "done" =>
        /\ LET its == NonSpacers(items)
           IN [i \in 1..Len(its) |-> TypeOf(its[i])] = BlockKinds(src, "none")
        /\ IsHeadingParaList =>
              /\ Len(items) = 3
              /\ items[1].type = "heading"
              /\ items[2].type = "paragraph"
              /\ items[3].type = "bullets"

RECURSIVE ListItemsOf(_)
ListItemsOf(its) ==
    IF Len(its) = 0 THEN <<>>
    ELSE (IF TypeOf(Head(its)) \in {"bullets", "ordered"}
          THEN <<Head(its)>> ELSE <<>>)
         \o ListItemsOf(Tail(its))

\* The list items the runs of list lines of one kind in ds call for; kind
\* and cur are the kind and the texts of the run being read.
RECURSIVE ExpectedLists(_, _, _)
ExpectedLists(ds, kind, cur) ==
    LET close == IF Len(cur) > 0
                 THEN <<[type |-> kind, items |-> cur]>> ELSE <<>>
    IN IF Len(ds) = 0 THEN close
       ELSE IF Head(ds).k \in {"bullet", "ordered"}
       THEN (IF BlockKind(Head(ds)) = kind
             THEN ExpectedLists(Tail(ds), kind, Append(cur, Head(ds).text))
             ELSE close \o ExpectedLists(Tail(ds), BlockKind(Head(ds)),
                                         <<Head(ds).text>>))
       ELSE close \o ExpectedLists(Tail(ds), "none", <<>>)

\* A run of list lines with no blank line that holds both kinds of marker.
IsMixedRun ==
    /\ \A i \in 1..Len(src) : src[i].k \in {"bullet", "ordered"}
    /\ \E i \in 1..Len(src) : src[i].k = "bullet"
    /\ \E i \in 1..Len(src) : src[i].k = "ordered"

\* C18: in a run of list lines with no blank line, a line with an ordered
\* marker that follows lines with a bullet marker, or the reverse, starts a
\* list item of its own kind: the output holds every list line of the run,
\* in items of the kinds of the markers, in input order.
C18_MixedRunSplits ==
    (pc = "done" /\ IsMixedRun) =>
        items = ExpectedLists(src, "none", <<>>)

RECURSIVE JoinWith(_, _)
JoinWith(ls, sep) ==
    IF Len(ls) = 0 THEN <<>>
    ELSE IF Len(ls) = 1 THEN ls[1]
    ELSE ls[1] \o sep \o JoinWith(Tail(ls), sep)

\* C19: consecutive lines that start no heading and no list form one
\* paragraph item whose text is the lines joined with a single space, and
\* the text of a paragraph item holds no newline.
C19_LinesJoinedBySpace ==
    pc = "done" =>
        /\ \A i \in 1..Len(items) :
              items[i].type = "paragraph" => ~Contains(items[i].text, <<NL>>)
        /\ (Len(src) > 0 /\ \A i \in 1..Len(src) : src[i].k = "para") =>
              items = <<[type |-> "paragraph",
                         text |-> JoinWith([i \in 1..Len(src) |-> src[i].text],
                                           <<" ">>)]>>

\* C20: lines that start with '>' are accumulated into one paragraph item
\* with format.italic = TRUE whose text holds no '>', which the styles
\* resolve to the blockquote bucket.
C20_QuoteIsItalicParagraph ==
    (pc = "done" /\ Len(src) > 0 /\ \A i \in 1..Len(src) : src[i].k = "quote") =>
        /\ Len(items) = 1
        /\ items[1].type = "paragraph"
        /\ ~Contains(items[1].text, <<">">>)
        /\ Flag(FormatOf(items[1]), "italic")
        /\ StyleKey(items[1]) = "blockquote"

-----------------------------------------------------------------------------
(* Properties of parseMarkdownFormatting *)

\* A segment with its markers put back.
Unparse(segment) ==
    IF Has(segment, "link")
    THEN <<"[">> \o segment.text \o <<"]", "(">> \o segment.link \o <<")">>
    ELSE IF Flag(segment, "bold")
    THEN <<"*", "*">> \o segment.text \o <<"*", "*">>
    ELSE IF Flag(segment, "italic")
    THEN <<"*">> \o segment.text \o <<"*">>
    ELSE segment.text

\* C6: for a line of well-formed bold, italic and link spans and plain
\* text, the segments, concatenated in order with their markers put back,
\* reproduce the line.
C6_RoundTrip ==
    pc = "done" =>
        Concat([i \in 1..Len(segs) |-> Unparse(segs[i])]) = fmtIn

\* C6: a line with a bold, an italic and a link span was split into
\* segments of the three kinds.
C6_Witness ==
    /\ pc = "done"
    /\ Len(segs) = 3
    /\ \E i \in 1..3 : Flag(segs[i], "bold")
    /\ \E i \in 1..3 : Flag(segs[i], "italic")
    /\ \E i \in 1..3 : Has(segs[i], "link")

\* The link whose label is wholly bold: [**L**](v)
BoldLabelLink == <<"[", "*", "*", "L", "*", "*", "]", "(", "v", ")">>

\* C22: the inline formatting inside a link label is processed
\* recursively: no link segment keeps the asterisks of its label, and the
\* line [**L**](v) gives one link segment with the text L, the link v and
\* the bold flag.
C22_LinkLabelIsFormatted ==
    pc = "done" =>
        /\ \A i \in 1..Len(segs) :
              Has(segs[i], "link") => ~Contains(segs[i].text, <<"*", "*">>)
        /\ fmtIn = BoldLabelLink =>
              /\ Len(segs) = 1
              /\ Has(segs[1], "link") /\ segs[1].link = <<"v">>
              /\ segs[1].text = <<"L">>
              /\ Flag(segs[1], "bold")

-----------------------------------------------------------------------------
(* Properties of the styles *)

\* C7: where applyStylesToContent resolves a bucket for an item, every field
\* of the item's own format keeps its value and the bucket supplies exactly
\* the fields the item leaves unset; a bucket fontSize of 12 under an item
\* fontSize of 20 gives 20.
C7_ItemFormatWins ==
    pc = "done" =>
        \A i \in 1..Len(content) :
            StyleKey(content[i]) \in DOMAIN mergedStyles =>
                LET bucket == mergedStyles[StyleKey(content[i])]
                    own == FormatOf(content[i])
                    effective == styled[i].format
                IN /\ DOMAIN effective = DOMAIN bucket \cup DOMAIN own
                   /\ \A k \in DOMAIN own : effective[k] = own[k]
                   /\ \A k \in DOMAIN bucket \ DOMAIN own :
                         effective[k] = bucket[k]
                   /\ (/\ Has(bucket, "fontSize") /\ bucket.fontSize = 12
                       /\ Has(own, "fontSize") /\ own.fontSize = 20)
                      => effective.fontSize = 20

\* C7: an item with fontSize 20 was styled from a bucket with fontSize 12
\* and a font name.
C7_Witness ==
    /\ pc = "done"
    /\ \E i \in 1..Len(content) :
          /\ StyleKey(content[i]) = "paragraph"
          /\ mergedStyles.paragraph.fontSize = 12
          /\ Has(FormatOf(content[i]), "fontSize")
          /\ content[i].format.fontSize = 20
          /\ styled[i].format.fontSize = 20
          /\ styled[i].format.fontName = Times

\* C8: the style sheet is the defaults with each key of the overrides
\* replaced as a whole bucket, every other key keeps its default bucket, and
\* DEFAULT_MARKDOWN_STYLES is never modified.
C8_WholeBucketMerge ==
    /\ defaultStyles = DEFAULT_MARKDOWN_STYLES
    /\ pc \in {"merged", "done"} =>
          /\ DOMAIN mergedStyles
                = DOMAIN DEFAULT_MARKDOWN_STYLES \cup DOMAIN styles
          /\ \A k \in DOMAIN mergedStyles :
                mergedStyles[k] = IF k \in DOMAIN styles THEN styles[k]
                                  ELSE DEFAULT_MARKDOWN_STYLES[k]

\* C8: an override of heading1 with two fields replaced the whole bucket,
\* and heading2 kept its default.
C8_Witness ==
    /\ pc = "merged"
    /\ Has(styles, "heading1")
    /\ mergedStyles.heading1 = [fontName |-> "Helvetica", fontSize |-> 48]
    /\ mergedStyles.heading2 = DEFAULT_MARKDOWN_STYLES.heading2

\* The bucket named for an item by its kind: heading1 to heading4 for the
\* headings of level 1 to 4 and of no level, blockquote for a paragraph
\* whose format is italic, paragraph for every other paragraph, bullets and
\* ordered for the lists, none for a heading of another level.
BucketByKind(item) ==
    LET kind == IF Has(item, "type") THEN item.type ELSE "paragraph"
        own == FormatOf(item)
    IN IF kind = "heading"
       THEN (IF ~Has(own, "level") THEN "heading1"
             ELSE IF own.level \in 1..4
             THEN <<"heading1", "heading2", "heading3", "heading4">>[own.level]
             ELSE "none")
       ELSE IF kind = "paragraph"
       THEN (IF Flag(own, "italic") THEN "blockquote" ELSE "paragraph")
       ELSE IF kind \in {"bullets", "ordered"} THEN kind
       ELSE "none"

\* C25: applyStylesToContent picks the bucket by kind: the output has the
\* length and the order of the input, an item without a bucket (a heading
\* of level 5 or more) is returned unchanged, every other item keeps its
\* fields and gets as format the bucket named for its kind under its own
\* format, and the input array is left as it was.
C25_BucketByKind ==
    [][(pc = "merged" /\ pc' = "done") =>
          /\ content' = content
          /\ Len(styled') = Len(content)
          /\ \A i \in 1..Len(content) :
                LET item == content[i]
                    b == BucketByKind(item)
                IN IF b = "none" THEN styled'[i] = item
                   ELSE /\ DOMAIN styled'[i] = DOMAIN item \cup {"format"}
                        /\ \A k \in DOMAIN item \ {"format"} :
                              styled'[i][k] = item[k]
                        /\ styled'[i].format
                              = Spread(mergedStyles[b], FormatOf(item))]_vars

\* C25: a heading without a level got the font size of heading1 and a
\* heading of level 5 came back unchanged, under the default styles.
C25_Witness ==
    /\ pc = "done" /\ styles = NoKeys
    /\ Len(content) = 2 /\ Len(styled) = 2
    /\ DOMAIN content[1] = {"type", "text"} /\ content[1].type = "heading"
    /\ styled[1].format.fontSize = 24
    /\ content[2].type = "heading" /\ Has(content[2], "format")
    /\ Has(content[2].format, "level") /\ content[2].format.level = 5
    /\ styled[2] = content[2]

-----------------------------------------------------------------------------
(* Properties of the DocumentManager *)

\* The step is a call of one of the operations ops.
IsCall(ops) == nCalls' = nCalls + 1 /\ event'.op \in ops

\* C9: saveDocument on a filename without a session fails with 'No document
\* session found', writes no file, now or later, and leaves the sessions
\* unchanged.
C9_SaveWithoutSession ==
    [][(IsCall({"saveDocument"}) /\ event'.file \notin DOMAIN sessions) =>
          /\ event'.error = NoSession
          /\ sessions' = sessions
          /\ disk' = disk
          /\ tasks' = tasks]_vars

\* C9: a save failed for a file without a session while another file had a
\* session and had been written.
C9_Witness ==
    /\ event.op = "saveDocument" /\ event.step = "call"
    /\ event.error = NoSession
    /\ event.file \notin DOMAIN disk
    /\ DOMAIN sessions # {}
    /\ DOMAIN disk # {}

\* The session of filename before an add call: its own, or a new empty one.
SessionBefore(filename) ==
    IF filename \in DOMAIN sessions THEN sessions[filename]
    ELSE [title |-> Undefined, author |-> Undefined, children |-> <<>>]

\* The number of elements an add call appends.
Appended(e) ==
    IF e.op \in {"addParagraph", "addHeading"} THEN 1 ELSE Len(e.args.items)

\* C10: addParagraph, addHeading, addBulletList and addOrderedList never
\* fail for a missing session: without a session they create an empty one
\* and append to it, with a session they append to it and keep its title,
\* its author and its earlier elements.
C10_AddAutoCreates ==
    [][IsCall(AddOps) =>
          LET f == event'.file
              old == SessionBefore(f)
          IN /\ event'.error = NoError
             /\ f \in DOMAIN sessions'
             /\ sessions'[f].title = old.title
             /\ sessions'[f].author = old.author
             /\ Len(sessions'[f].children)
                   = Len(old.children) + Appended(event')
             /\ SubSeq(sessions'[f].children, 1, Len(old.children))
                   = old.children]_vars

\* C10: a heading was appended to a session that had a title and one
\* earlier element.
C10_Witness ==
    /\ event.op = "addHeading"
    /\ event.file \in DOMAIN sessions
    /\ sessions[event.file].title = "Report"
    /\ Len(sessions[event.file].children) = 2
    /\ Has(sessions[event.file].children[2], "heading")

\* The step is a step of a call of op that was in flight.
IsStep(op) == nCalls' = nCalls /\ tasks' # tasks /\ event'.op = op

\* C11: closeDocument removes the session exactly when its save step
\* succeeded: the step that ends a successful close removes the session of
\* its file and no other, every other step of a close (the call, with or
\* without a session, a failed serialization, a failed write) leaves the
\* sessions unchanged, and a saveDocument that follows a successful close of
\* the same file fails with 'No document session found'.
C11_CloseRemovesOnSuccess ==
    [][/\ (IsStep("closeDocument") /\ event'.step = "written") =>
             /\ event'.file \notin DOMAIN sessions'
             /\ \A g \in DOMAIN sessions \ {event'.file} :
                   g \in DOMAIN sessions' /\ sessions'[g] = sessions[g]
       /\ (\/ IsCall({"closeDocument"})
           \/ IsStep("closeDocument") /\ event'.step # "written") =>
             sessions' = sessions
       /\ (/\ IsCall({"saveDocument"})
           /\ event.op = "closeDocument" /\ event.step = "written"
           /\ event'.file = event.file) =>
             event'.error = NoSession]_vars

\* C11: a close wrote the document of a session with elements and removed
\* the session.
C11_Witness ==
    /\ event.op = "closeDocument" /\ event.step = "written"
    /\ event.file \notin DOMAIN sessions
    /\ event.file \in DOMAIN disk
    /\ Len(disk[event.file].children) > 0

\* C12: discardDocument removes the session of its file, writes no file,
\* raises no error with or without a session and leaves every other session
\* unchanged; a saveDocument of the same file that follows it fails with
\* 'No document session found'.
C12_DiscardRemoves ==
    [][/\ IsCall({"discardDocument"}) =>
             /\ event'.error = NoError
             /\ event'.file \notin DOMAIN sessions'
             /\ DOMAIN sessions' = DOMAIN sessions \ {event'.file}
             /\ \A g \in DOMAIN sessions' : sessions'[g] = sessions[g]
             /\ disk' = disk
             /\ tasks' = tasks
       /\ (/\ IsCall({"saveDocument"})
           /\ event.op = "discardDocument"
           /\ event'.file = event.file) =>
             /\ event'.error = NoSession
             /\ disk' = disk /\ tasks' = tasks]_vars

\* C12: a discard left the other file's session in place and nothing was
\* written.
C12_Witness ==
    /\ event.op = "discardDocument"
    /\ DOMAIN sessions = Files \ {event.file}
    /\ \A g \in DOMAIN sessions : Len(sessions[g].children) > 0
    /\ disk = <<>>

\* C27: createDocument always leaves its file with a session of no
\* elements and of the title and the author given, whether or not the file
\* had a session: the elements of an earlier session are dropped, nothing is
\* written, no save is started and no error is raised, and no other session
\* is changed.
C27_CreateReplacesSession ==
    [][IsCall({"createDocument"}) =>
          LET f == event'.file
          IN /\ event'.error = NoError
             /\ DOMAIN sessions' = DOMAIN sessions \cup {f}
             /\ sessions'[f].children = <<>>
             /\ sessions'[f].title = event'.args.title
             /\ sessions'[f].author = event'.args.author
             /\ \A g \in DOMAIN sessions \ {f} : sessions'[g] = sessions[g]
             /\ disk' = disk
             /\ tasks' = tasks]_vars

\* C27: createDocument gave a file a new empty session while a save of the
\* file's earlier session, which had elements, was in flight and nothing
\* was written; the other file kept its elements.
C27_Witness ==
    /\ event.op = "createDocument" /\ event.step = "call"
    /\ sessions[event.file] = NewSession("Report", "Ann")
    /\ \E id \in DOMAIN tasks :
          /\ tasks[id].file = event.file
          /\ Len(tasks[id].doc.children) > 0
    /\ disk = <<>>

-----------------------------------------------------------------------------
(* Properties of createDocumentFromContent *)

\* What an element of a session was added as.
ElementKind(e) ==
    IF Has(e, "bullet") THEN "bullets"
    ELSE IF Has(e, "numbering") THEN "ordered"
    ELSE IF Has(e, "heading") THEN "heading"
    ELSE "paragraph"

KindsOf(elements) == [i \in 1..Len(elements) |-> ElementKind(elements[i])]

\* The kinds of the elements an item is to add: none for a paragraph
\* without text, a heading without text or with the empty text and a list
\* without entries; an item without a type counts as a paragraph when it
\* has a text and adds nothing when it has none.
KindsFor(item) ==
    IF ~Has(item, "type")
    THEN (IF Has(item, "text") THEN <<"paragraph">> ELSE <<>>)
    ELSE IF item.type = "paragraph"
    THEN (IF Has(item, "text") THEN <<"paragraph">> ELSE <<>>)
    ELSE IF item.type = "heading"
    THEN (IF Has(item, "text") /\ item.text # <<>> THEN <<"heading">>
          ELSE <<>>)
    ELSE IF Has(item, "items")
    THEN Repeat(item.type, Len(item.items))
    ELSE <<>>

ExpectedKinds(cont) == Concat([i \in 1..Len(cont) |-> KindsFor(cont[i])])

AllTyped(cont) == \A i \in 1..Len(cont) : Has(cont[i], "type")

\* The call has gone through all the items of its content array.
ItemsDone == event.op # "none" /\ event.step \in {"saving", "packed", "written"}

\* The errors of the serialization and of the file system.
SaveErrors == {"toBuffer failed", "writeFile failed"}

\* The call of createDocumentFromContent adds the elements of the kinds
\* ExpectedKinds names, raises no error of its own and goes on to save the
\* document with these elements.
AddsExpectedKinds ==
    /\ event.op # "none" => event.error \in {NoError} \cup SaveErrors
    /\ ItemsDone =>
          /\ "a.docx" \in DOMAIN sessions
          /\ KindsOf(sessions["a.docx"].children) = ExpectedKinds(content)
    /\ (event.op # "none" /\ event.step = "written") =>
          /\ "a.docx" \in DOMAIN disk
          /\ disk["a.docx"].children = sessions["a.docx"].children

\* C13: createDocumentFromContent adds no element and raises no error for
\* a paragraph item without text, a heading item without text or with the
\* empty text and a bullets or ordered item without items or with none;
\* every other item of the array is added and the document is saved.
C13_SkipsItemsWithoutContent ==
    AllTyped(content) => AddsExpectedKinds

\* C13: a content array of a heading with the empty text and a bullets item
\* was saved as a document of the two list entries.
C13_Witness ==
    /\ event.op = "createDocumentFromContent" /\ event.step = "written"
    /\ Len(content) = 2
    /\ AllTyped(content)
    /\ content[1].type = "heading" /\ Has(content[1], "text")
    /\ content[1].text = <<>>
    /\ content[2].type = "bullets" /\ Has(content[2], "items")
    /\ Len(disk["a.docx"].children) = 2

\* C14: an item without a type is handled as a paragraph if and only if
\* it has a text, the empty text giving an empty spacer paragraph; without
\* a text it adds nothing, with or without items.
C14_UntypedIsParagraphIfText ==
    ~AllTyped(content) =>
        /\ AddsExpectedKinds
        /\ (/\ ItemsDone /\ Len(content) = 1
            /\ DOMAIN content[1] = {"text"} /\ content[1].text = <<>>) =>
              sessions["a.docx"].children
                  = <<[children |-> <<[text |-> <<>>]>>, spacingAfter |-> 200]>>

\* C14: an item with items and no type and an item with the empty text and
\* no type were saved as one paragraph.
C14_Witness ==
    /\ event.op = "createDocumentFromContent" /\ event.step = "written"
    /\ Len(content) = 2
    /\ DOMAIN content[1] = {"items"}
    /\ DOMAIN content[2] = {"text"} /\ content[2].text = <<>>
    /\ Len(disk["a.docx"].children) = 1
    /\ ElementKind(disk["a.docx"].children[1]) = "paragraph"

-----------------------------------------------------------------------------
(* Properties of calls that run side by side *)

\* No run of the elements holds the text written for another file than f.
OnlyOwn(elements, f) ==
    \A i \in 1..Len(elements) :
        \A j \in 1..Len(elements[i].children) :
            \A g \in Files \ {f} : elements[i].children[j].text # Tag[g]

\* C17: operations on different filenames do not interfere, in any
\* interleaving of their asynchronous steps: a call for a file and every
\* later step of it leave the session and the written document of every
\* other file as they are, and a written document holds only elements that
\* were added under its own filename.
C17_FilesDoNotInterfere ==
    [][(event' # event \/ nCalls' # nCalls \/ tasks' # tasks) =>
          /\ \A g \in Files \ {event'.file} :
                /\ g \in DOMAIN sessions' <=> g \in DOMAIN sessions
                /\ g \in DOMAIN sessions => sessions'[g] = sessions[g]
                /\ g \in DOMAIN disk' <=> g \in DOMAIN disk
                /\ g \in DOMAIN disk => disk'[g] = disk[g]
          /\ \A f \in DOMAIN disk' : OnlyOwn(disk'[f].children, f)
          /\ \A f \in DOMAIN sessions' :
                OnlyOwn(sessions'[f].children, f)]_vars

\* C17: the document of one file was written while a
\* createDocumentFromContent for the other file was between two of its
\* items.
C17_Witness ==
    /\ event.op = "createDocumentFromContent" /\ event.step = "written"
    /\ \E id \in DOMAIN tasks :
          /\ tasks[id].op = "createDocumentFromContent"
          /\ tasks[id].file # event.file
          /\ tasks[id].pc = "items" /\ tasks[id].next = 2
    /\ Len(disk[event.file].children) = 3

-----------------------------------------------------------------------------
(* Properties of the rendering of the items *)

\* Every item of the content array is a paragraph with a text.
ParagraphsOnly(cont) ==
    \A i \in 1..Len(cont) :
        /\ Has(cont[i], "type") /\ cont[i].type = "paragraph"
        /\ Has(cont[i], "text")

\* The trimmed text is three or more repetitions of one of '-', '*', '_'.
IsOneCharacterRule(text) ==
    LET t == Trim(text)
    IN /\ Len(t) >= 3
       /\ t[1] \in {"-", "*", "_"}
       /\ \A i \in 1..Len(t) : t[i] = t[1]

\* C21: a paragraph is rendered as a horizontal rule (an empty paragraph
\* with a bottom border) exactly when its trimmed text is three or more
\* repetitions of one and the same character of '-', '*' and '_'; a mixture
\* such as '-*_' is rendered as ordinary text.
C21_RuleForOneCharacterOnly ==
    (ItemsDone /\ ParagraphsOnly(content)) =>
        /\ Len(sessions["a.docx"].children) = Len(content)
        /\ \A i \in 1..Len(content) :
              Has(sessions["a.docx"].children[i], "border")
                  <=> IsOneCharacterRule(content[i].text)

\* The item is a paragraph or a heading whose text is rendered as runs:
\* neither blank nor a rule.
IsTextItem(item) ==
    /\ Has(item, "type") /\ item.type \in {"paragraph", "heading"}
    /\ Has(item, "text")
    /\ Len(Trim(item.text)) > 0
    /\ ~IsHorizontalRule(item.text)

\* The runs of the element are those of the segments of the item's text,
\* each bold when its segment or the item's format is bold and italic when
\* its segment or the item's format is italic.
RunsFollowFormat(item, e) ==
    LET segments == parseMarkdownFormatting(item.text)
        format == FormatOf(item)
    IN /\ Len(e.children) = Len(segments)
       /\ \A j \in 1..Len(segments) :
             /\ e.children[j].bold
                   = (Flag(segments[j], "bold") \/ Flag(format, "bold"))
             /\ e.children[j].italics
                   = (Flag(segments[j], "italic") \/ Flag(format, "italic"))

\* C23: for the paragraphs and the headings createDocumentFromContent adds,
\* each run is bold exactly when its segment is bold or the format of the
\* item has bold = true, and italic exactly when its segment is italic or
\* the format has italic = true.
C23_BoldItalicBySegmentOrFormat ==
    (ItemsDone /\ \A i \in 1..Len(content) : IsTextItem(content[i])) =>
        /\ Len(sessions["a.docx"].children) = Len(content)
        /\ \A i \in 1..Len(content) :
              RunsFollowFormat(content[i], sessions["a.docx"].children[i])

\* Every item of the content array is a list with entries.
ListsOnly(cont) ==
    \A i \in 1..Len(cont) :
        /\ Has(cont[i], "type") /\ cont[i].type \in {"bullets", "ordered"}
        /\ Has(cont[i], "items")

\* The entries of a list that are not empty after trimming, trimmed.
RECURSIVE UsableEntries(_)
UsableEntries(its) ==
    IF Len(its) = 0 THEN <<>>
    ELSE (IF Len(Trim(Head(its))) = 0 THEN <<>> ELSE <<Trim(Head(its))>>)
         \o UsableEntries(Tail(its))

\* The texts of the runs of the elements, one text per element.
TextsOf(elements) ==
    [i \in 1..Len(elements) |->
        Concat([j \in 1..Len(elements[i].children) |->
                   elements[i].children[j].text])]

\* C24: the entries of a list are trimmed and filtered before they are
\* rendered: there is one list element for each entry that is not empty
\* after trimming and none for the other entries, so that no list element
\* has a blank text and a list whose entries are all empty or blank adds
\* nothing.
C24_EntriesTrimmedAndFiltered ==
    (ItemsDone /\ ListsOnly(content)) =>
        LET texts == TextsOf(sessions["a.docx"].children)
        IN /\ Len(texts)
                 = Len(Concat([i \in 1..Len(content) |->
                                  UsableEntries(content[i].items)]))
           /\ \A i \in 1..Len(texts) : Len(Trim(texts[i])) > 0

-----------------------------------------------------------------------------
(* Properties of the session createDocumentFromContent leaves *)

\* The texts of the elements an item is to give, one text per element: the
\* text of a paragraph with a text, empty for a rule; the text of a heading
\* with a text that is not empty; the entries of a list.
TextsFor(item) ==
    IF ~Has(item, "type") \/ item.type = "paragraph"
    THEN (IF Has(item, "text")
          THEN <<IF IsOneCharacterRule(item.text) THEN <<>> ELSE item.text>>
          ELSE <<>>)
    ELSE IF item.type = "heading"
    THEN (IF Has(item, "text") /\ item.text # <<>> THEN <<item.text>>
          ELSE <<>>)
    ELSE IF Has(item, "items") THEN item.items
    ELSE <<>>

ExpectedTexts(cont) == Concat([i \in 1..Len(cont) |-> TextsFor(cont[i])])

\* C26: after createDocumentFromContent has gone through its content array,
\* the elements of the session are exactly those of the array, in the order
\* of the array, and none of an earlier session of the file: one per
\* paragraph with a text, one per heading with a text that is not empty,
\* one per entry of each list; an empty text and a rule text give one
\* element with one empty run; the document is then written with these
\* elements, and with none for the empty array.
C26_ExactlyTheContent ==
    /\ ItemsDone =>
          LET elements == sessions["a.docx"].children
          IN /\ KindsOf(elements) = ExpectedKinds(content)
             /\ TextsOf(elements) = ExpectedTexts(content)
             /\ \A i \in 1..Len(elements) :
                   TextsOf(elements)[i] = <<>> =>
                       elements[i].children = <<[text |-> <<>>]>>
    /\ (event.op = "createDocumentFromContent" /\ event.step = "written") =>
          /\ "a.docx" \in DOMAIN disk
          /\ disk["a.docx"].children = sessions["a.docx"].children
          /\ Len(content) = 0 => disk["a.docx"].children = <<>>
    /\ event.op = "createDocumentFromContent" =>
          event.error \in {NoError} \cup SaveErrors

\* C26: the file had a session with an element before the call, and the
\* document written holds the empty paragraph of the rule and the two
\* entries of the list of the content array.
C26_Witness ==
    /\ event.op = "createDocumentFromContent" /\ event.step = "written"
    /\ nCalls = 2
    /\ Len(content) = 2
    /\ DOMAIN content[1] = {"type", "text"}
    /\ content[1].type = "paragraph"
    /\ content[1].text = <<"-", "-", "-">>
    /\ DOMAIN content[2] = {"type", "items"}
    /\ content[2].type = "bullets"
    /\ TextsOf(disk["a.docx"].children) = <<<<>>, <<"a">>, <<"b">>>>

\* C26: the empty content array was written as a document without
\* elements.
C26_EmptyWritten ==
    /\ event.op = "createDocumentFromContent" /\ event.step = "written"
    /\ content = <<>>
    /\ disk["a.docx"].children = <<>>

-----------------------------------------------------------------------------
(* Properties of saveDocument *)

BatchOps == {"createDocumentFromContent", "createDocumentFromMarkdown"}

\* The step is a step of the save that ends a createDocumentFromContent or
\* a createDocumentFromMarkdown.
IsBatchSaveStep ==
    /\ nCalls' = nCalls /\ tasks' # tasks /\ event'.op \in BatchOps
    /\ event'.step \in {"saving", "packed", "written", "failed"}

\* C28: saveDocument changes no session: its call and each of its later
\* steps, successful or failed, and the save steps that end
\* createDocumentFromContent and createDocumentFromMarkdown, leave every
\* session with its title, its author and its elements; a save of a file
\* with a session raises no error, whatever call came before it, and writes
\* the session as it is, with the elements added since the last save; the
\* file keeps its session when a createDocumentFromContent or a
\* createDocumentFromMarkdown has been written.
C28_SaveKeepsSession ==
    [][/\ (\/ IsCall({"saveDocument"}) \/ IsStep("saveDocument")
           \/ IsBatchSaveStep) =>
             sessions' = sessions
       /\ (IsCall({"saveDocument"}) /\ event'.file \in DOMAIN sessions) =>
             /\ event'.error = NoError
             /\ \E id \in DOMAIN tasks' \ DOMAIN tasks :
                   tasks'[id].doc = buildDocument(sessions[event'.file])
       /\ (IsStep("saveDocument") /\ event'.step = "written") =>
             /\ event'.file \in DOMAIN sessions'
             /\ disk'[event'.file] = buildDocument(sessions'[event'.file])
       /\ (IsBatchSaveStep /\ event'.step = "written") =>
             /\ event'.file \in DOMAIN sessions'
             /\ disk'[event'.file] = buildDocument(sessions'[event'.file])
      ]_vars

\* C28: the session createDocumentFromMarkdown left, with a paragraph added
\* after its save, was saved again: the document written holds the heading
\* and, last, the paragraph, and the session is as it was.
C28_Witness ==
    /\ event.op = "saveDocument" /\ event.step = "written"
    /\ nCalls = 3
    /\ "a.docx" \in DOMAIN sessions
    /\ sessions["a.docx"].title = "Report"
    /\ LET elements == disk["a.docx"].children
       IN /\ Len(elements) >= 2
          /\ Has(elements[1], "heading")
          /\ Has(elements[1], "border")
          /\ TextsOf(elements)[Len(elements)] = <<"x">>
          /\ sessions["a.docx"].children = elements

-----------------------------------------------------------------------------
(* Properties of createDocumentFromContent beside calls for the same file *)

\* The elements of a content array, in order.
OwnElements(cont) ==
    Concat([i \in 1..Len(cont) |->
               IF ItemAdds(cont[i]) THEN ItemElements(cont[i]) ELSE <<>>])

\* The call id is a createDocumentFromContent that ends with this step.
EndsFromContent(id) ==
    /\ id \in DOMAIN tasks /\ id \notin DOMAIN tasks'
    /\ tasks[id].op = "createDocumentFromContent"

\* C29 as stated: createDocumentFromContent is atomic with respect to the
\* other calls for its file: in every interleaving of its steps with those
\* of other calls, the document it writes holds exactly the elements of its
\* own content array, in order, and it never fails with 'No document session
\* found'.
C29_Atomic ==
    [][\A id \in 1..MaxCalls :
          EndsFromContent(id) =>
              /\ event'.error # NoSession
              /\ event'.step = "written" =>
                    disk'[tasks[id].file].children
                        = OwnElements(tasks[id].content)]_vars

\* C29 amended: createDocumentFromContent is not isolated from the other
\* calls for its file. The document it saves is the session of the file as
\* it is when the loop over its items has ended. When no call was in flight
\* as it was called and no call is made before it ends, the document it
\* writes holds exactly the elements of its own content array, in order,
\* whatever session the file had before, and it does not fail with 'No
\* document session found'.
C29_ExactWhenAlone ==
    [][\A id \in 1..MaxCalls :
          /\ (/\ id \in DOMAIN tasks /\ tasks[id].pc = "items"
              /\ id \in DOMAIN tasks' /\ tasks'[id].pc = "pack") =>
                tasks'[id].doc = buildDocument(sessions[tasks[id].file])
          /\ (EndsFromContent(id) /\ tasks[id].alone /\ nCalls = id) =>
                /\ event'.error # NoSession
                /\ event'.step = "written" =>
                      disk'[tasks[id].file].children
                          = OwnElements(tasks[id].content)]_vars

\* C29: a createDocumentFromContent called for a file that had a session
\* with an element, with no other call in flight and none made since, has
\* built the document of its own three elements and is writing it.
C29_Witness ==
    /\ nCalls = 2
    /\ DOMAIN tasks = {2}
    /\ tasks[2].op = "createDocumentFromContent" /\ tasks[2].pc = "write"
    /\ tasks[2].alone
    /\ event.op = "createDocumentFromContent" /\ event.step = "packed"
    /\ tasks[2].file = "a.docx"
    /\ Len(tasks[2].doc.children) = 3
    /\ tasks[2].doc.children = OwnElements(tasks[2].content)
    /\ tasks[2].doc.title = "Report"

-----------------------------------------------------------------------------
(* Properties of createDocumentFromMarkdown *)

\* The bucket of the headings of a level from 1 to 4 in the styles of a
\* call: the caller's bucket, or the default one where the caller gives
\* none.
ResolvedHeadingBucket(sheet, level) ==
    LET key == <<"heading1", "heading2", "heading3", "heading4">>[level]
    IN IF key \in DOMAIN sheet THEN sheet[key]
       ELSE DEFAULT_MARKDOWN_STYLES[key]

\* The call id is a createDocumentFromMarkdown that adds an item with this
\* step.
AddsFromMarkdown(id) ==
    /\ id \in DOMAIN tasks /\ id \in DOMAIN tasks'
    /\ tasks[id].op = "createDocumentFromMarkdown"
    /\ tasks[id].pc = "items" /\ tasks'[id].pc = "items"
    /\ tasks'[id].next > tasks[id].next

\* C30: in createDocumentFromMarkdown the bottom border of a heading of
\* level 1 to 4 follows the borderBottom field of the bucket resolved for
\* its level: the heading element has a border exactly when that field is
\* true, so that heading1.borderBottom = false gives level-1 headings
\* without a border and heading3.borderBottom = true gives level-3 headings
\* with one.
C30_BorderFollowsBucket ==
    [][\A id \in 1..MaxCalls :
          AddsFromMarkdown(id) =>
              LET item == tasks[id].content[tasks'[id].next - 1]
                  elements == sessions'[tasks[id].file].children
                  e == elements[Len(elements)]
              IN (item.type = "heading" /\ item.format.level \in 1..4) =>
                    (Has(e, "border")
                        <=> Flag(ResolvedHeadingBucket(tasks[id].styles,
                                                       item.format.level),
                                 "borderBottom"))]_vars

=============================================================================
